---- MODULE Spec2Model ----
(***************************************************************************)
(* Verification model of the extractor core of yt-dlp                      *)
(* (src/yt_dlp/extractor): the VideoKen playlist / category / topic        *)
(* walkers, the iPrima login and media API pipeline, and the VRT player    *)
(* token exchange.                                                         *)
(***************************************************************************)
EXTENDS Integers, Sequences, FiniteSets, TLC

\* ------------------------------------------------------------------ bounds
\* pages a listing walk may fetch (itertools.count is unbounded)
MaxPages == 2
\* items a listing may hold in all, over its pages
MaxListed == 3

\* extract(url) calls made on one extractor instance
MaxItems == 2
\* tokens of the final URL of the login POST
MaxUrlLen == 6

\* stream descriptors of one media API body
MaxStreams == 2

\* targetUrls and subtitleUrls entries of one VRT API body, together
MaxVrtData == 2

\* items of one Radio 1 page
MaxRefs == 2

\* tracks and other src entries of one CNN Prima player page, together
MaxTracks == 2

\* Python's None; a missing integer (int_or_none's None); JSON booleans
None == "None"
NoInt == -1
JsonTrue == "true"
JsonFalse == "false"

VARIABLES
    wk_ie,        \* which walker runs: "category", "topic" or "playlist"
    wk_pc,        \* position of _real_extract / the _entries generator
    wk_page,      \* `page` of `for page in itertools.count(1)`
    wk_videos,    \* items of the current page not yet iterated
    wk_last,      \* end-of-data signal of the current page
    wk_out,       \* url_results the caller has received, in order
    wk_outPage,   \* the page each received url_result was listed on
    wk_pulls,     \* next() calls the caller has made
    wk_orgReqs,   \* organisation-details requests issued
    wk_infoReqs,  \* 'Downloading category info' requests issued
    wk_pageReqs,  \* listing requests issued by _entries
    wk_signals,   \* end-of-data signal of every page _entries received
    wk_infoSignal,\* is_last_page of the 'category info' response
    wk_listed,    \* items listed on the pages _entries iterated
    wk_expect,    \* references owed for the listed items
    wk_err,       \* exception that ended the extraction, or None
    wk_failed     \* listing requests of _entries whose download failed

wkVars == <<wk_ie, wk_pc, wk_page, wk_videos, wk_last, wk_out, wk_outPage,
            wk_pulls, wk_orgReqs, wk_infoReqs, wk_pageReqs, wk_signals,
            wk_infoSignal, wk_listed, wk_expect, wk_err, wk_failed>>

VARIABLES
    ss_ie,            \* extractor of the session: "iprima" or "vrtnu"
    ip_pc,            \* position of the IPrimaIE instance
    ip_username,      \* _get_login_info()[0]
    ip_password,      \* _get_login_info()[1]
    ip_ready,         \* the instance has been initialised (login done)
    ip_access_token,  \* IPrimaIE.access_token
    ip_items,         \* extract(url) calls started
    ip_err,           \* exception raised by the current / last call
    ip_reqLoginPage,  \* 'Downloading login page' requests issued
    ip_reqLoginPost,  \* 'Logging in' POSTs issued
    ip_reqToken,      \* 'Downloading token' POSTs issued
    ip_reqWebpage,    \* item page requests issued
    ip_reqApi,        \* 'Getting manifest URLs' requests issued
    ip_postUrl,       \* login_handle.geturl() of the current call's POST
    ip_code,          \* `code` taken from the redirect
    ip_tokenData,     \* access_token field of the current call's token response
    ip_logins,        \* logins that obtained an access token
    ip_sentTokens,    \* X-OTT-Access-Token values sent to the media API
    ip_video_id,      \* productId found on the item page
    ip_metadata,      \* body of the current call's media API response
    ip_expansions,    \* manifest expansion calls of the current call, in order
    ip_result,        \* info dict the current call has returned
    ip_malformed      \* calls of this session that failed on a body without streamInfos

ipVars == <<ip_pc, ip_username, ip_password, ip_ready, ip_access_token,
            ip_items, ip_err, ip_reqLoginPage, ip_reqLoginPost, ip_reqToken,
            ip_reqWebpage, ip_reqApi, ip_postUrl, ip_code, ip_tokenData,
            ip_logins, ip_sentTokens, ip_video_id, ip_metadata, ip_expansions,
            ip_result, ip_malformed>>

VARIABLES
    vrt_pc,           \* position of the VrtNUIE instance
    vrt_items,        \* extract(url) calls started
    vrt_cookies,      \* identity cookies in the cookie jar
    vrt_ssoReqs,      \* 'Getting tokens' requests issued
    vrt_tokenReqs,    \* 'Downloading player token' POSTs issued
    vrt_videoReqs,    \* 'Downloading API JSON' requests issued
    vrt_playerToken,  \* player_token of the _call_api in progress
    vrt_err,          \* exception raised by the current / last call
    vrt_data,         \* API JSON the current _call_api returned
    vrt_calls,        \* expansion calls of _extract_formats_and_subtitles, in order
    vrt_result        \* (formats, subtitles) it returned

vrtVars == <<vrt_pc, vrt_items, vrt_cookies, vrt_ssoReqs, vrt_tokenReqs,
             vrt_videoReqs, vrt_playerToken, vrt_err, vrt_data, vrt_calls,
             vrt_result>>

VARIABLES
    r1_pc,            \* position of the Radio1BeIE entries generator
    r1_refs,          \* media references of the page's items, in order
    r1_idx,           \* items the generator has taken from the listing
    r1_out            \* entries the generator has yielded

r1Vars == <<r1_pc, r1_refs, r1_idx, r1_out>>

VARIABLES
    cnn_pc,           \* position of IPrimaCNNIE._real_extract
    cnn_page,         \* what the player page holds: tracks, src entries, geo notice
    cnn_calls,        \* calls of extract_formats that expanded a manifest, in order
    cnn_formats,      \* formats of the returned info dict
    cnn_err           \* exception raised by _real_extract

cnnVars == <<cnn_pc, cnn_page, cnn_calls, cnn_formats, cnn_err>>

ssVars == <<ss_ie, ipVars, vrtVars, r1Vars, cnnVars>>

vars == <<wkVars, ssVars>>

\* ------------------------------------------------------------ listing data
\* the page the walk was started from (the `url` argument, used as referer)
Referer == "https://videos.cncf.io/"

\* URLs, as urlparse sees them.  NoUrl is a missing or empty URL (falsy in
\* Python, netloc ''); BareId(id) is a bare video id used in place of a URL.
NoUrl == [netloc |-> "", path |-> <<>>, embed_parent_url |-> None]
BareId(video_id) == [netloc |-> "", path |-> <<video_id>>, embed_parent_url |-> None]
SlidesLiveSignIn == [netloc |-> "slideslive.com", path |-> <<"embed/sign-in">>, embed_parent_url |-> None]
SlidesLiveWatch == [netloc |-> "slideslive.com", path |-> <<"38922815">>, embed_parent_url |-> None]
OtherUrl == [netloc |-> "vimeo.com", path |-> <<"watch">>, embed_parent_url |-> None]

\* One listed item.  id: youtube_id (category, playlist) / videoid (topic);
\* type: type / source; embed_url: embed_url / embeddableurl.
Videos ==
    { [id |-> None, type |-> "youtube", embed_url |-> NoUrl],
      [id |-> "yt1", type |-> "youtube", embed_url |-> NoUrl],
      [id |-> "v2", type |-> "html5", embed_url |-> NoUrl],
      [id |-> "slideslive-3", type |-> "slideslive", embed_url |-> SlidesLiveSignIn],
      [id |-> "v4", type |-> "html5", embed_url |-> OtherUrl],
      [id |-> "slideslive-5", type |-> "slideslive", embed_url |-> SlidesLiveWatch] }

SeqsUpTo(S, n) == UNION { [1..k -> S] : k \in 0..n }

VideoLists == SeqsUpTo(Videos, MaxListed)

\* a category_videos response; {} (also a failed, non-fatal download) is the
\* record with every field None / empty
CategoryPagesWithin(n) ==
    [is_last_page : {None, JsonFalse, JsonTrue}, videos : SeqsUpTo(Videos, n),
     category_name : {None, "Programs"}]

CategoryPages == CategoryPagesWithin(MaxListed)

\* a get_results response
TopicPagesWithin(n) ==
    [total_no_of_pages : {NoInt} \cup (0..MaxPages), results : SeqsUpTo(Videos, n)]

\* a playlistitems response, or a failed (fatal) download
PlaylistResponses == [status : {"ok", "HTTPError"}, videos : VideoLists]

\* the organisation details response, or a failed (fatal) download
OrgResponses == [status : {"ok", "HTTPError"}, id : {"org"}, apikey : {"key"}]

\* ------------------------------------------------------------ pure helpers
\* video_id.lstrip("slideslive-") on the ids of the listing
lstrip_slideslive(video_id) ==
    CASE video_id = "slideslive-3" -> "3"
      [] video_id = "slideslive-5" -> "5"
      [] video_id = "v2" -> "2"
      [] video_id = "v4" -> "4"
      [] OTHER -> video_id

\* VideoKenBaseIE._create_slideslive_url
create_slideslive_url(video_url, video_id, referer) ==
    IF video_url = NoUrl /\ video_id = None THEN NoUrl
    ELSE LET u == IF video_url = NoUrl \/ video_url.path = <<"embed/sign-in">>
                  THEN [netloc |-> "slideslive.com", path |-> <<"embed", lstrip_slideslive(video_id)>>,
                        embed_parent_url |-> None]
                  ELSE video_url
         IN IF referer # None THEN [u EXCEPT !.embed_parent_url = referer] ELSE u

url_result(video_url, ie_key, video_id) ==
    [_type |-> "url", url |-> video_url, ie_key |-> ie_key, id |-> video_id]

\* mutant: the entries are collected eagerly instead of being yielded
AfterYield_eager == "items"

\* what the caller does when the generator yields: the generator is suspended
\* until the next next()
AfterYield == "suspended"

\* mutant: only YouTube items are passed on
extract_video_youtube_only(video, url) ==
    IF video.id # None /\ video.type = "youtube"
    THEN <<url_result(BareId(video.id), "Youtube", video.id)>>
    ELSE <<>>

\* mutant: the `if not video_url: continue` test is missing
extract_video_no_url_test(video, url) ==
    IF video.id = None THEN <<>>
    ELSE IF video.type = "youtube"
         THEN <<url_result(BareId(video.id), "Youtube", video.id)>>
    ELSE IF video.embed_url.netloc = "slideslive.com"
         THEN <<url_result(create_slideslive_url(video.embed_url, video.id, url),
                           "SlidesLive", video.id)>>
         ELSE <<url_result(video.embed_url, None, video.id)>>

\* one iteration of the loop of VideoKenBaseIE._extract_videos: the url_results
\* the item yields, none when the loop `continue`s
extract_video(video, url) ==
    IF video.id = None THEN <<>>
    ELSE IF video.type = "youtube"
         THEN <<url_result(BareId(video.id), "Youtube", video.id)>>
    ELSE LET video_url == video.embed_url
         IN IF video_url.netloc = "slideslive.com"
            THEN LET u == create_slideslive_url(video_url, video.id, url)
                 IN IF u = NoUrl THEN <<>> ELSE <<url_result(u, "SlidesLive", video.id)>>
            ELSE IF video_url = NoUrl THEN <<>>
                 ELSE <<url_result(video_url, None, video.id)>>

\* one iteration of the item loop of VideoKenTopicIE._entries
topic_video(video, url) ==
    IF video.id = None THEN <<>>
    ELSE IF video.type = "youtube"
         THEN <<url_result(BareId(video.id), "Youtube", video.id)>>
    ELSE LET video_url == video.embed_url
         IN IF video_url.netloc = "slideslive.com"
            THEN LET u == create_slideslive_url(video_url, video.id, url)
                 IN IF u = NoUrl THEN <<>> ELSE <<url_result(u, "SlidesLive", video.id)>>
            ELSE IF video_url = NoUrl THEN <<>>
                 ELSE <<url_result(video_url, None, video.id)>>

\* ---------------------------------------------------------------- errors
NoError == [type |-> None, msg |-> "", countries |-> {}]
ExtractorError(msg) == [type |-> "ExtractorError", msg |-> msg, countries |-> {}]
GeoRestrictedError(countries) ==
    [type |-> "GeoRestrictedError", msg |-> "geo restricted", countries |-> countries]
PythonError(type, what) == [type |-> type, msg |-> what, countries |-> {}]

\* no media API body received; no info dict returned
NoMetadata == [errorCode |-> "unset", hasStreamInfos |-> FALSE, streamInfos |-> <<>>]
NoResult == [id |-> None, formats |-> <<>>, keys |-> {}]

\* no VRT API JSON received; nothing returned by _extract_formats_and_subtitles
NoVrtData == [targetUrls |-> <<>>, subtitleUrls |-> <<>>]
NoVrtResult == [formats |-> <<>>, subtitles |-> [l \in {"nl", "fr"} |-> <<>>]]

\* no player page downloaded
NoPage == [tracks |-> <<>>, srcs |-> <<>>, geo |-> FALSE]

\* no IPrimaCNNIE extraction runs
CnnOff ==
    /\ cnn_pc = "off" /\ cnn_page = NoPage /\ cnn_calls = <<>>
    /\ cnn_formats = <<>> /\ cnn_err = NoError

\* no session runs
SessionOff ==
    /\ ss_ie = "none"
    /\ ip_pc = "off" /\ ip_username = None /\ ip_password = None
    /\ ip_ready = FALSE /\ ip_access_token = "" /\ ip_items = 0
    /\ ip_err = NoError /\ ip_reqLoginPage = 0 /\ ip_reqLoginPost = 0
    /\ ip_reqToken = 0 /\ ip_reqWebpage = 0 /\ ip_reqApi = 0
    /\ ip_postUrl = <<>> /\ ip_code = <<>> /\ ip_tokenData = "unset"
    /\ ip_logins = 0 /\ ip_sentTokens = {} /\ ip_video_id = None
    /\ ip_metadata = NoMetadata
    /\ ip_expansions = <<>> /\ ip_result = NoResult /\ ip_malformed = 0
    /\ vrt_pc = "off" /\ vrt_items = 0 /\ vrt_cookies = {} /\ vrt_ssoReqs = 0
    /\ vrt_tokenReqs = 0 /\ vrt_videoReqs = 0 /\ vrt_playerToken = None
    /\ vrt_err = NoError
    /\ vrt_data = NoVrtData /\ vrt_calls = <<>> /\ vrt_result = NoVrtResult
    /\ r1_pc = "off" /\ r1_refs = <<>> /\ r1_idx = 0 /\ r1_out = <<>>
    /\ CnnOff

\* ------------------------------------------------------------ walker: init
WalkInit ==
    /\ SessionOff
    /\ wk_ie \in {"category", "topic", "playlist"}
    /\ wk_pc = "start"
    /\ wk_page = 0
    /\ wk_videos = <<>>
    /\ wk_last = None
    /\ wk_out = <<>>
    /\ wk_outPage = <<>>
    /\ wk_pulls = 0
    /\ wk_orgReqs = 0
    /\ wk_infoReqs = 0
    /\ wk_pageReqs = 0
    /\ wk_signals = <<>>
    /\ wk_infoSignal = "unrequested"
    /\ wk_listed = 0
    /\ wk_expect = <<>>
    /\ wk_err = None
    /\ wk_failed = 0

\* ids of the items of a page for which a reference is owed: the item names
\* its id, and is a YouTube item or carries an embed URL
Deliverable(video) ==
    video.id # None /\ (video.type = "youtube" \/ video.embed_url # NoUrl)

OwedIds(videos) ==
    LET kept == SelectSeq(videos, Deliverable)
    IN [i \in 1..Len(kept) |-> kept[i].id]

\* --------------------------------------------------- walker: _real_extract
\* VideoKenBaseIE._get_org_id_and_api_key: a fatal download, then two lookups
get_org_id_and_api_key(details) ==
    IF details.status # "ok" THEN [err |-> "ExtractorError", id |-> None, apikey |-> None]
    ELSE [err |-> None, id |-> details.id, apikey |-> details.apikey]

\* VideoKenCategoryIE._real_extract: organisation details, the category name
\* read from a first listing request, then playlist_result over _entries
CategoryRealExtract ==
    /\ wk_ie = "category" /\ wk_pc = "start"
    /\ \E details \in OrgResponses, info \in CategoryPages :
        LET org == get_org_id_and_api_key(details) IN
        /\ wk_orgReqs' = wk_orgReqs + 1
        /\ IF org.err # None
           THEN /\ wk_err' = org.err /\ wk_pc' = "error"
                /\ UNCHANGED <<wk_infoReqs, wk_infoSignal>>
           ELSE /\ wk_infoReqs' = wk_infoReqs + 1
                /\ wk_infoSignal' = info.is_last_page
                /\ IF info.category_name = None
                   THEN wk_err' = "KeyError" /\ wk_pc' = "error"
                   ELSE wk_err' = None /\ wk_pc' = "created"
    /\ UNCHANGED ssVars
    /\ UNCHANGED <<wk_failed, wk_ie, wk_page, wk_videos, wk_last, wk_out, wk_outPage,
                   wk_pulls, wk_pageReqs, wk_signals, wk_listed, wk_expect>>

\* VideoKenTopicIE._real_extract
TopicRealExtract ==
    /\ wk_ie = "topic" /\ wk_pc = "start"
    /\ \E details \in OrgResponses :
        LET org == get_org_id_and_api_key(details) IN
        /\ wk_orgReqs' = wk_orgReqs + 1
        /\ IF org.err # None
           THEN wk_err' = org.err /\ wk_pc' = "error"
           ELSE wk_err' = None /\ wk_pc' = "created"
    /\ UNCHANGED ssVars
    /\ UNCHANGED <<wk_failed, wk_ie, wk_infoSignal, wk_page, wk_videos, wk_last, wk_out, wk_outPage,
                   wk_pulls, wk_infoReqs, wk_pageReqs, wk_signals, wk_listed,
                   wk_expect>>

\* VideoKenPlaylistIE._real_extract: one (fatal) playlistitems request, then
\* playlist_result over _extract_videos(videos, url)
PlaylistRealExtract ==
    /\ wk_ie = "playlist" /\ wk_pc = "start"
    /\ \E details \in OrgResponses, videos \in PlaylistResponses :
        LET org == get_org_id_and_api_key(details) IN
        /\ wk_orgReqs' = wk_orgReqs + 1
        /\ IF org.err # None
           THEN /\ wk_err' = org.err /\ wk_pc' = "error"
                /\ UNCHANGED <<wk_pageReqs, wk_videos, wk_listed, wk_expect>>
           ELSE /\ wk_pageReqs' = wk_pageReqs + 1
                /\ IF videos.status # "ok"
                   THEN /\ wk_err' = "ExtractorError" /\ wk_pc' = "error"
                        /\ UNCHANGED <<wk_videos, wk_listed, wk_expect>>
                   ELSE /\ wk_err' = None /\ wk_pc' = "created"
                        /\ wk_videos' = videos.videos
                        /\ wk_listed' = Len(videos.videos)
                        /\ wk_expect' = OwedIds(videos.videos)
    /\ UNCHANGED ssVars
    /\ UNCHANGED <<wk_failed, wk_ie, wk_infoSignal, wk_page, wk_last, wk_out, wk_outPage, wk_pulls,
                   wk_infoReqs, wk_signals>>

\* ------------------------------------------------- walker: the generators
\* the caller asks the playlist's entries for one more item: next()
Pull ==
    /\ wk_pc \in {"created", "suspended"}
    /\ wk_pulls' = wk_pulls + 1
    /\ IF wk_pc = "created" /\ wk_ie # "playlist"
       THEN wk_pc' = "fetch" /\ wk_page' = 1
       ELSE wk_pc' = "items" /\ UNCHANGED wk_page
    /\ UNCHANGED ssVars
    /\ UNCHANGED <<wk_failed, wk_ie, wk_infoSignal, wk_videos, wk_last, wk_out, wk_outPage, wk_orgReqs,
                   wk_infoReqs, wk_pageReqs, wk_signals, wk_listed, wk_expect,
                   wk_err>>

\* outcome of the transport of one listing download
DownloadStatus == {"ok", "HTTPError"}

\* the bodies a download with this outcome can deliver
Delivered(status, bodies, empty) == IF status = "ok" THEN bodies ELSE {empty}

\* {} as a category_videos response
EmptyCategoryPage == [is_last_page |-> None, videos |-> <<>>, category_name |-> None]

\* {} as a get_results response
EmptyTopicPage == [total_no_of_pages |-> NoInt, results |-> <<>>]

\* VideoKenCategoryIE._get_category_page: _download_json(fatal=False) or {}
get_category_page(status, body) == IF status = "ok" THEN body ELSE EmptyCategoryPage

\* VideoKenTopicIE._get_topic_page: _download_json(fatal=False) or {}
get_topic_page(status, body) == IF status = "ok" THEN body ELSE EmptyTopicPage

\* VideoKenCategoryIE._entries, top of the loop: _get_category_page(page) and
\* the test of is_last_page
CategoryFetchPage ==
    /\ wk_ie = "category" /\ wk_pc = "fetch" /\ wk_page <= MaxPages
    /\ \E status \in DownloadStatus :
       \E body \in Delivered(status, CategoryPagesWithin(MaxListed - wk_listed),
                              EmptyCategoryPage) :
        LET videos == get_category_page(status, body) IN
        /\ wk_failed' = wk_failed + (IF status = "ok" THEN 0 ELSE 1)
        /\ wk_pageReqs' = wk_pageReqs + 1
        /\ wk_signals' = Append(wk_signals, videos.is_last_page)
        /\ IF videos.is_last_page = None
           THEN /\ wk_pc' = "done"
                /\ UNCHANGED <<wk_videos, wk_last, wk_listed, wk_expect>>
           ELSE /\ wk_pc' = "items"
                /\ wk_videos' = videos.videos
                /\ wk_last' = videos.is_last_page
                /\ wk_listed' = wk_listed + Len(videos.videos)
                /\ wk_expect' = wk_expect \o OwedIds(videos.videos)
    /\ UNCHANGED ssVars
    /\ UNCHANGED <<wk_ie, wk_infoSignal, wk_page, wk_out, wk_outPage, wk_pulls, wk_orgReqs,
                   wk_infoReqs, wk_err>>

\* utils.int_or_none on a JSON number or a missing value
int_or_none(v) == v

\* VideoKenTopicIE._entries, top of the loop: _get_topic_page(page) and the
\* test of total_pages (int_or_none of a missing value is None). The walk is
\* followed one page past MaxPages, where the listing has no results left
TopicFetchPage ==
    /\ wk_ie = "topic" /\ wk_pc = "fetch" /\ wk_page <= MaxPages + 1
    /\ \E status \in DownloadStatus :
       \E body \in Delivered(status,
                              TopicPagesWithin(IF wk_page > MaxPages THEN 0
                                               ELSE MaxListed - wk_listed),
                              EmptyTopicPage) :
        LET videos == get_topic_page(status, body)
            total_pages == int_or_none(videos.total_no_of_pages) IN
        /\ wk_failed' = wk_failed + (IF status = "ok" THEN 0 ELSE 1)
        /\ wk_pageReqs' = wk_pageReqs + 1
        /\ wk_signals' = Append(wk_signals, total_pages)
        /\ IF total_pages = NoInt \/ total_pages = 0
           THEN /\ wk_pc' = "done"
                /\ UNCHANGED <<wk_videos, wk_last, wk_listed, wk_expect>>
           ELSE /\ wk_pc' = "items"
                /\ wk_videos' = videos.results
                /\ wk_last' = total_pages
                /\ wk_listed' = wk_listed + Len(videos.results)
                /\ wk_expect' = wk_expect \o OwedIds(videos.results)
    /\ UNCHANGED ssVars
    /\ UNCHANGED <<wk_ie, wk_infoSignal, wk_page, wk_out, wk_outPage, wk_pulls, wk_orgReqs,
                   wk_infoReqs, wk_err>>

\* the reference one listed item yields, by walker
ItemResult(video) ==
    IF wk_ie = "topic" THEN topic_video(video, Referer)
    ELSE extract_video(video, Referer)

\* one iteration of the item loop: `continue`, or yield a url_result
ItemStep ==
    /\ wk_pc = "items" /\ wk_videos # <<>>
    /\ LET r == ItemResult(Head(wk_videos)) IN
        /\ wk_videos' = Tail(wk_videos)
        /\ IF r = <<>>
           THEN UNCHANGED <<wk_pc, wk_out, wk_outPage>>
           ELSE /\ wk_pc' = AfterYield
                /\ wk_out' = wk_out \o r
                /\ wk_outPage' = Append(wk_outPage, wk_page)
    /\ UNCHANGED ssVars
    /\ UNCHANGED <<wk_failed, wk_ie, wk_infoSignal, wk_page, wk_last, wk_pulls, wk_orgReqs, wk_infoReqs,
                   wk_pageReqs, wk_signals, wk_listed, wk_expect, wk_err>>

\* mutant: the topic walk stops one page after the reported total
LastPage_after_total ==
    CASE wk_ie = "category" -> wk_last = JsonTrue
      [] wk_ie = "topic" -> wk_page = wk_last + 1
      [] OTHER -> TRUE

\* mutant: the category walk does not stop on is_last_page
LastPage_flag_ignored ==
    CASE wk_ie = "category" -> FALSE
      [] wk_ie = "topic" -> wk_page = wk_last
      [] OTHER -> TRUE

\* the test that ends the walk after a page's items
LastPage ==
    CASE wk_ie = "category" -> wk_last = JsonTrue
      [] wk_ie = "topic" -> wk_page = wk_last
      [] OTHER -> TRUE

\* the item loop is exhausted: break, or go on to the next page
PageEnd ==
    /\ wk_pc = "items" /\ wk_videos = <<>>
    /\ IF LastPage
       THEN wk_pc' = "done" /\ UNCHANGED wk_page
       ELSE wk_pc' = "fetch" /\ wk_page' = wk_page + 1
    /\ UNCHANGED ssVars
    /\ UNCHANGED <<wk_failed, wk_ie, wk_infoSignal, wk_videos, wk_last, wk_out, wk_outPage, wk_pulls,
                   wk_orgReqs, wk_infoReqs, wk_pageReqs, wk_signals, wk_listed,
                   wk_expect, wk_err>>

WalkNext ==
    \/ CategoryRealExtract
    \/ TopicRealExtract
    \/ PlaylistRealExtract
    \/ Pull
    \/ CategoryFetchPage
    \/ TopicFetchPage
    \/ ItemStep
    \/ PageEnd

SpecWalk == WalkInit /\ [][WalkNext]_vars

\* ------------------------------------------------------- iPrima: _login
\* no walk runs
WalkOff ==
    /\ wk_ie = "none" /\ wk_pc = "off" /\ wk_page = 0 /\ wk_videos = <<>>
    /\ wk_last = None /\ wk_out = <<>> /\ wk_outPage = <<>> /\ wk_pulls = 0
    /\ wk_orgReqs = 0 /\ wk_infoReqs = 0 /\ wk_pageReqs = 0 /\ wk_signals = <<>>
    /\ wk_infoSignal = "unrequested" /\ wk_listed = 0 /\ wk_expect = <<>>
    /\ wk_err = None /\ wk_failed = 0

\* IPrimaIE._LOGIN_REQUIRED
LOGIN_REQUIRED == TRUE

\* the text of a URL, cut into tokens: "u" is any run of other characters
UrlTokens == {"u", "?", "&", "=", "code"}

\* final URLs the login POST may end on
LoginUrls ==
    { u \in UNION { [1..k -> UrlTokens] : k \in 1..MaxUrlLen } : u[1] = "u" }

\* index of the first d in s, 0 when there is none
Find(s, d) ==
    IF \E i \in 1..Len(s) : s[i] = d
    THEN CHOOSE i \in 1..Len(s) : s[i] = d /\ \A j \in 1..(i - 1) : s[j] # d
    ELSE 0

\* str.split(d)
RECURSIVE Split(_, _)
Split(s, d) ==
    IF Find(s, d) = 0 THEN <<s>>
    ELSE <<SubSeq(s, 1, Find(s, d) - 1)>> \o Split(SubSeq(s, Find(s, d) + 1, Len(s)), d)

\* dict(map(lambda x: x.split('='), url.split('?')[1].split('&')))['code']:
\* the exception it raises, or the code
redirect_code(url) ==
    LET parts == Split(url, "?") IN
    IF Len(parts) < 2 THEN [exc |-> "IndexError", code |-> <<>>]
    ELSE LET pairs == Split(parts[2], "&")
             kv == [i \in 1..Len(pairs) |-> Split(pairs[i], "=")]
             codes == {i \in 1..Len(kv) : kv[i][1] = <<"code">>}
         IN IF \E i \in 1..Len(kv) : Len(kv[i]) # 2
            THEN [exc |-> "ValueError", code |-> <<>>]
            ELSE IF codes = {} THEN [exc |-> "KeyError", code |-> <<>>]
            ELSE [exc |-> None,
                  code |-> kv[CHOOSE i \in codes : \A j \in codes : j <= i][2]]

\* the try / except around the parse of the redirect
login_code(url) ==
    LET r == redirect_code(url) IN
    CASE r.exc = None -> [err |-> NoError, code |-> r.code]
      [] r.exc = "IndexError" ->
            [err |-> ExtractorError("Login failed (invalid credentials?)"), code |-> <<>>]
      [] OTHER -> [err |-> PythonError(r.exc, "code"), code |-> <<>>]

\* mutant: login is refused only when both credentials are absent
credentials_missing_both(username, password) ==
    username = None /\ password = None

\* the test `username is None or password is None`
credentials_missing(username, password) ==
    username = None \/ password = None

\* mutant: the token response is not tested
token_missing_untested(access_token) == FALSE

\* the test `self.access_token is None`
token_missing(access_token) == access_token = None

\* token responses: the access_token field of the JSON body (None when the
\* body has none), or a failed download
TokenResponses == [status : {"ok", "HTTPError"}, access_token : {None, "at1", "at2"}]

SessionInit ==
    /\ WalkOff
    /\ ss_ie \in {"iprima", "vrtnu"}
    /\ ip_pc = (IF ss_ie = "iprima" THEN "idle" ELSE "off")
    /\ ip_username \in (IF ss_ie = "iprima" THEN {None, "user"} ELSE {None})
    /\ ip_password \in (IF ss_ie = "iprima" THEN {None, "secret"} ELSE {None})
    /\ ip_ready = FALSE /\ ip_access_token = "" /\ ip_items = 0
    /\ ip_err = NoError /\ ip_reqLoginPage = 0 /\ ip_reqLoginPost = 0
    /\ ip_reqToken = 0 /\ ip_reqWebpage = 0 /\ ip_reqApi = 0
    /\ ip_postUrl = <<>> /\ ip_code = <<>> /\ ip_tokenData = "unset"
    /\ ip_logins = 0 /\ ip_sentTokens = {} /\ ip_video_id = None
    /\ ip_metadata = NoMetadata
    /\ ip_expansions = <<>> /\ ip_result = NoResult /\ ip_malformed = 0
    /\ vrt_pc = (IF ss_ie = "vrtnu" THEN "idle" ELSE "off")
    /\ vrt_items = 0 /\ vrt_cookies = {} /\ vrt_ssoReqs = 0
    /\ vrt_tokenReqs = 0 /\ vrt_videoReqs = 0 /\ vrt_playerToken = None
    /\ vrt_err = NoError
    /\ vrt_data = NoVrtData /\ vrt_calls = <<>> /\ vrt_result = NoVrtResult
    /\ r1_pc = "off" /\ r1_refs = <<>> /\ r1_idx = 0 /\ r1_out = <<>>
    /\ CnnOff

\* InfoExtractor.extract(url) on the instance: initialize() runs
\* _real_initialize() unless an earlier call completed it, then _real_extract
IpExtract ==
    /\ ip_pc = "idle" /\ ip_items < MaxItems
    /\ ip_items' = ip_items + 1
    /\ ip_err' = NoError
    /\ ip_postUrl' = <<>> /\ ip_code' = <<>> /\ ip_tokenData' = "unset"
    /\ ip_video_id' = None
    /\ ip_metadata' = NoMetadata
    /\ ip_expansions' = <<>> /\ ip_result' = NoResult
    /\ ip_pc' = (IF ip_ready THEN "webpage" ELSE "login")
    /\ UNCHANGED <<ip_username, ip_password, ip_ready, ip_access_token,
                   ip_reqLoginPage, ip_reqLoginPost, ip_reqToken, ip_reqWebpage,
                   ip_reqApi, ip_logins, ip_sentTokens>>
    /\ UNCHANGED ip_malformed
    /\ UNCHANGED <<ss_ie, vrtVars, r1Vars, cnnVars, wkVars>>

\* IPrimaIE._login, up to the login page request
IpLoginStart ==
    /\ ip_pc = "login"
    /\ IF credentials_missing(ip_username, ip_password) /\ LOGIN_REQUIRED
       THEN /\ ip_err' = ExtractorError("Login is required to access any iPrima content")
            /\ ip_pc' = "idle"
       ELSE /\ ip_pc' = "login_page"
            /\ UNCHANGED ip_err
    /\ UNCHANGED <<ip_username, ip_password, ip_ready, ip_access_token, ip_items,
                   ip_reqLoginPage, ip_reqLoginPost, ip_reqToken, ip_reqWebpage,
                   ip_reqApi, ip_postUrl, ip_code, ip_tokenData, ip_logins,
                   ip_sentTokens, ip_video_id, ip_metadata, ip_expansions, ip_result>>
    /\ UNCHANGED ip_malformed
    /\ UNCHANGED <<ss_ie, vrtVars, r1Vars, cnnVars, wkVars>>

\* IPrimaIE._login: 'Downloading login page' (fatal) and the login form
IpLoginPage ==
    /\ ip_pc = "login_page"
    /\ ip_reqLoginPage' = ip_reqLoginPage + 1
    /\ \E ok \in BOOLEAN :
        IF ok THEN ip_pc' = "login_post" /\ UNCHANGED ip_err
        ELSE /\ ip_err' = ExtractorError("Downloading login page failed")
             /\ ip_pc' = "idle"
    /\ UNCHANGED <<ip_username, ip_password, ip_ready, ip_access_token, ip_items,
                   ip_reqLoginPost, ip_reqToken, ip_reqWebpage, ip_reqApi,
                   ip_postUrl, ip_code, ip_tokenData, ip_logins, ip_sentTokens,
                   ip_video_id, ip_metadata, ip_expansions, ip_result>>
    /\ UNCHANGED ip_malformed
    /\ UNCHANGED <<ss_ie, vrtVars, r1Vars, cnnVars, wkVars>>

\* IPrimaIE._login: 'Logging in' (fatal) and the parse of the final URL
IpLoginPost ==
    /\ ip_pc = "login_post"
    /\ ip_reqLoginPost' = ip_reqLoginPost + 1
    /\ \/ /\ ip_err' = ExtractorError("Unable to download webpage")
          /\ ip_pc' = "idle"
          /\ UNCHANGED <<ip_postUrl, ip_code>>
       \/ \E url \in LoginUrls :
            LET r == login_code(url) IN
            /\ ip_postUrl' = url
            /\ ip_err' = r.err
            /\ ip_code' = r.code
            /\ ip_pc' = (IF r.err = NoError THEN "token" ELSE "idle")
    /\ UNCHANGED <<ip_username, ip_password, ip_ready, ip_access_token, ip_items,
                   ip_reqLoginPage, ip_reqToken, ip_reqWebpage, ip_reqApi,
                   ip_tokenData, ip_logins, ip_sentTokens, ip_video_id,
                   ip_metadata, ip_expansions, ip_result>>
    /\ UNCHANGED ip_malformed
    /\ UNCHANGED <<ss_ie, vrtVars, r1Vars, cnnVars, wkVars>>

\* IPrimaIE._login: 'Downloading token' (fatal), which sends the code, and
\* the test of access_token; _login ends here and its locals with it; on
\* return _real_initialize is complete and _real_extract starts
IpToken ==
    /\ ip_pc = "token"
    /\ ip_reqToken' = ip_reqToken + 1
    /\ \E token_data \in TokenResponses :
        IF token_data.status # "ok"
        THEN /\ ip_err' = ExtractorError("Downloading token failed")
             /\ ip_pc' = "idle"
             /\ UNCHANGED <<ip_access_token, ip_tokenData, ip_ready, ip_logins>>
        ELSE /\ ip_tokenData' = token_data.access_token
             /\ ip_access_token' = token_data.access_token
             /\ IF token_missing(token_data.access_token)
                THEN /\ ip_err' = ExtractorError("Getting token failed")
                     /\ ip_pc' = "idle"
                     /\ UNCHANGED <<ip_ready, ip_logins>>
                ELSE /\ ip_ready' = TRUE
                     /\ ip_logins' = ip_logins + 1
                     /\ ip_pc' = "webpage"
                     /\ UNCHANGED ip_err
    /\ ip_postUrl' = <<>> /\ ip_code' = <<>>
    /\ UNCHANGED <<ip_username, ip_password, ip_items, ip_reqLoginPage,
                   ip_reqLoginPost, ip_reqWebpage, ip_reqApi,
                   ip_sentTokens, ip_video_id, ip_metadata, ip_expansions, ip_result>>
    /\ UNCHANGED ip_malformed
    /\ UNCHANGED <<ss_ie, vrtVars, r1Vars, cnnVars, wkVars>>

\* ------------------------------------------------ iPrima: _real_extract
\* item pages: a failed (fatal) download, or a page with or without productId
ItemPages == [status : {"ok", "HTTPError"}, productId : {None, "p12345"}]

\* stream descriptors of the media API: type and url are None when the
\* descriptor has none
StreamDescriptors ==
    { [type |-> "HLS", url |-> "https://x/a.m3u8"],
      [type |-> "DASH", url |-> "https://x/b.mpd"],
      [type |-> "MP4", url |-> "https://x/c.mp4"],
      [type |-> "DASH", url |-> "https://x/a.m3u8"],
      [type |-> None, url |-> "https://x/b.mpd"],
      [type |-> "HLS", url |-> None] }

\* media API bodies (read also on HTTP 403), or a failed (fatal) download
ApiBodies ==
    { b \in [status : {"ok", "HTTPError"},
             errorCode : {None, "PLAY_GEOIP_DENIED", "PLAY_FORBIDDEN", ""},
             hasStreamInfos : BOOLEAN,
             streamInfos : SeqsUpTo(StreamDescriptors, MaxStreams)] :
        ~b.hasStreamInfos => b.streamInfos = <<>> }

\* utils.determine_ext on the URLs of the descriptors
determine_ext(url) ==
    CASE url = "https://x/a.m3u8" -> "m3u8"
      [] url = "https://x/b.mpd" -> "mpd"
      [] url = "https://x/c.mp4" -> "mp4"
      [] OTHER -> "unknown_video"

\* mutant: the error code is tested for truth, not against None
raise_access_error_truthy(error_code) ==
    IF error_code = "PLAY_GEOIP_DENIED" THEN GeoRestrictedError({"CZ"})
    ELSE IF error_code \notin {None, ""}
         THEN ExtractorError("Access to stream infos forbidden")
    ELSE NoError

\* IPrimaIE._raise_access_error: the exception raised, NoError for none
raise_access_error(error_code) ==
    IF error_code = "PLAY_GEOIP_DENIED" THEN GeoRestrictedError({"CZ"})
    ELSE IF error_code # None
         THEN ExtractorError("Access to stream infos forbidden")
    ELSE NoError

\* mutant: streamInfos is not tested
stream_infos_missing_untested(metadata) == FALSE

\* stream_infos = metadata.get('streamInfos'); `stream_infos is None`
stream_infos_missing(metadata) == ~metadata.hasStreamInfos

\* mutant: the class attribute default is sent, not the session's token
access_token_header_default == ""

\* headers={'X-OTT-Access-Token': self.access_token}
access_token_header == ip_access_token

\* the expansion the loop of _real_extract calls for a descriptor
manifest_kind(manifest) ==
    LET ext == determine_ext(manifest.url) IN
    IF manifest.type = "HLS" \/ ext = "m3u8" THEN "hls"
    ELSE IF manifest.type = "DASH" \/ ext = "mpd" THEN "dash"
    ELSE "none"

\* _extract_m3u8_formats / _extract_mpd_formats with fatal=False: two
\* variants, or nothing when the manifest cannot be expanded
expand(kind, url, ok) ==
    IF ok THEN << [format_id |-> kind, url |-> url, tbr |-> 2],
                  [format_id |-> kind, url |-> url, tbr |-> 1] >>
    ELSE <<>>

\* mutant: the loop ends at the first expansion that returns nothing
RECURSIVE extract_formats_until_failure(_, _)
extract_formats_until_failure(stream_infos, oks) ==
    IF stream_infos = <<>> THEN <<>>
    ELSE LET kind == manifest_kind(Head(stream_infos)) IN
         IF kind = "none" THEN extract_formats_until_failure(Tail(stream_infos), Tail(oks))
         ELSE IF ~Head(oks) THEN <<>>
         ELSE expand(kind, Head(stream_infos).url, TRUE)
              \o extract_formats_until_failure(Tail(stream_infos), Tail(oks))

\* formats after the loop over stream_infos; oks[i]: expansion i succeeds
RECURSIVE extract_formats(_, _)
extract_formats(stream_infos, oks) ==
    IF stream_infos = <<>> THEN <<>>
    ELSE LET kind == manifest_kind(Head(stream_infos)) IN
         (IF kind = "none" THEN <<>>
          ELSE expand(kind, Head(stream_infos).url, Head(oks)))
         \o extract_formats(Tail(stream_infos), Tail(oks))

\* the expansion calls the loop issues from the i-th descriptor on, in
\* order, each with the descriptor it is for and whether it succeeds
RECURSIVE expansion_calls(_, _, _)
expansion_calls(stream_infos, oks, i) ==
    IF i > Len(stream_infos) THEN <<>>
    ELSE LET kind == manifest_kind(stream_infos[i]) IN
         (IF kind = "none" THEN <<>>
          ELSE <<[kind |-> kind, url |-> stream_infos[i].url, stream |-> i,
                  ok |-> oks[i]]>>)
         \o expansion_calls(stream_infos, oks, i + 1)

\* whether the expansion of a descriptor can return variants: there is an
\* expansion, and a manifest to download
expandable(manifest) ==
    manifest_kind(manifest) # "none" /\ manifest.url # None

\* _sort_formats: worst first, by bitrate; stable
RECURSIVE sort_formats(_)
sort_formats(formats) ==
    IF formats = <<>> THEN <<>>
    ELSE LET low == CHOOSE i \in 1..Len(formats) :
                        /\ \A j \in 1..Len(formats) : formats[i].tbr <= formats[j].tbr
                        /\ \A j \in 1..(i - 1) : formats[j].tbr > formats[i].tbr
         IN <<formats[low]>>
            \o sort_formats(SubSeq(formats, 1, low - 1) \o SubSeq(formats, low + 1, Len(formats)))

\* IPrimaIE._real_extract: the item page and the product id
IpWebpage ==
    /\ ip_pc = "webpage"
    /\ ip_reqWebpage' = ip_reqWebpage + 1
    /\ \E webpage \in ItemPages :
        IF webpage.status # "ok"
        THEN /\ ip_err' = ExtractorError("Unable to download webpage")
             /\ ip_pc' = "idle" /\ UNCHANGED ip_video_id
        ELSE IF webpage.productId = None
        THEN /\ ip_err' = ExtractorError("Unable to extract real id")
             /\ ip_pc' = "idle" /\ UNCHANGED ip_video_id
        ELSE /\ ip_video_id' = webpage.productId
             /\ ip_pc' = "api" /\ UNCHANGED ip_err
    /\ UNCHANGED <<ip_username, ip_password, ip_ready, ip_access_token, ip_items,
                   ip_reqLoginPage, ip_reqLoginPost, ip_reqToken, ip_reqApi,
                   ip_postUrl, ip_code, ip_tokenData, ip_logins, ip_sentTokens,
                   ip_metadata, ip_expansions, ip_result>>
    /\ UNCHANGED ip_malformed
    /\ UNCHANGED <<ss_ie, vrtVars, r1Vars, cnnVars, wkVars>>

\* mutant: streamInfos is tested before the error code
api_error_streams_first(metadata) ==
    IF stream_infos_missing(metadata)
    THEN ExtractorError("Reading stream infos failed")
    ELSE raise_access_error(metadata.errorCode)

\* the exception _real_extract raises on the API body, NoError for none:
\* _raise_access_error(metadata.get('errorCode')), then the test of
\* streamInfos
api_error(metadata) ==
    IF raise_access_error(metadata.errorCode) # NoError
    THEN raise_access_error(metadata.errorCode)
    ELSE IF stream_infos_missing(metadata)
    THEN ExtractorError("Reading stream infos failed")
    ELSE NoError

\* IPrimaIE._real_extract: 'Getting manifest URLs', the access error and the
\* test of streamInfos
IpApi ==
    /\ ip_pc = "api"
    /\ ip_reqApi' = ip_reqApi + 1
    /\ ip_sentTokens' = ip_sentTokens \cup {access_token_header}
    /\ \E metadata \in ApiBodies :
        IF metadata.status # "ok"
        THEN /\ ip_err' = ExtractorError("Getting manifest URLs failed")
             /\ ip_pc' = "idle" /\ UNCHANGED ip_metadata
        ELSE /\ ip_metadata' = [errorCode |-> metadata.errorCode,
                                hasStreamInfos |-> metadata.hasStreamInfos,
                                streamInfos |-> metadata.streamInfos]
             /\ IF api_error(metadata) # NoError
                THEN /\ ip_err' = api_error(metadata)
                     /\ ip_pc' = "idle"
                ELSE ip_pc' = "formats" /\ UNCHANGED ip_err
    /\ ip_malformed' = IF ip_err' = ExtractorError("Reading stream infos failed")
                       THEN ip_malformed + 1 ELSE ip_malformed
    /\ UNCHANGED <<ip_username, ip_password, ip_ready, ip_access_token, ip_items,
                   ip_reqLoginPage, ip_reqLoginPost, ip_reqToken, ip_reqWebpage,
                   ip_postUrl, ip_code, ip_tokenData, ip_logins, ip_video_id,
                   ip_expansions, ip_result>>
    /\ UNCHANGED <<ss_ie, vrtVars, r1Vars, cnnVars, wkVars>>

\* keys of the dict _search_json_ld(webpage, video_id) returns: none when
\* the page has no JSON-LD, the metadata of a video object otherwise
JsonLdKeys == { {}, {"title", "description", "timestamp"} }

\* mutant: the info dict carries a subtitles entry
final_result_with_subtitles(json_ld, video_id, formats) ==
    [id |-> video_id, formats |-> formats,
     keys |-> json_ld \cup {"id", "title", "thumbnail", "formats", "description",
                            "subtitles"}]

\* final_result = json_ld or {}; final_result.update({...}): the id, the
\* formats and the keys of the returned info dict
final_result(json_ld, video_id, formats) ==
    [id |-> video_id, formats |-> formats,
     keys |-> json_ld \cup {"id", "title", "thumbnail", "formats", "description"}]

\* IPrimaIE._real_extract: the loop over stream_infos, _sort_formats and the
\* returned info dict
IpFormats ==
    /\ ip_pc = "formats"
    /\ \E oks \in [1..Len(ip_metadata.streamInfos) -> BOOLEAN], json_ld \in JsonLdKeys :
        /\ \A i \in 1..Len(oks) : oks[i] => expandable(ip_metadata.streamInfos[i])
        /\ ip_expansions' = expansion_calls(ip_metadata.streamInfos, oks, 1)
        /\ ip_result' = final_result(json_ld, ip_video_id,
                            sort_formats(extract_formats(ip_metadata.streamInfos, oks)))
    /\ ip_pc' = "idle"
    /\ UNCHANGED <<ip_username, ip_password, ip_ready, ip_access_token, ip_items,
                   ip_err, ip_reqLoginPage, ip_reqLoginPost, ip_reqToken,
                   ip_reqWebpage, ip_reqApi, ip_postUrl, ip_code, ip_tokenData,
                   ip_logins, ip_sentTokens, ip_video_id, ip_metadata>>
    /\ UNCHANGED ip_malformed
    /\ UNCHANGED <<ss_ie, vrtVars, r1Vars, cnnVars, wkVars>>

\* --------------------------------------------------------------- VRT MAX
VrtCookieNames == {"vrtnu-site_profile_at", "vrtnu-site_profile_vt"}

VrtStreamUrl == "https://vrt/stream"
SubtitleUrl1 == "https://vrt/s1.vtt"
SubtitleUrl2 == "https://vrt/s2.vtt"

\* utils.url_or_none: the URL when it has a scheme the downloader knows
url_or_none(url) ==
    IF url \in {VrtStreamUrl, SubtitleUrl1, SubtitleUrl2} THEN url ELSE None

\* str.upper() on the type strings of the targets
Upper(type) ==
    CASE type = "mp4" -> "MP4"
      [] type = "hls" -> "HLS"
      [] OTHER -> type

\* entries of targetUrls: the five known types, an unknown one in lower case,
\* and entries with an empty or invalid URL or with no type
TargetDescriptors ==
    [type : {"HLS", "HLS_AES", "HDS", "MPEG_DASH", "HSS", "mp4"}, url : {VrtStreamUrl}]
    \cup { [type |-> "HLS", url |-> ""],
           [type |-> "mp4", url |-> "not a url"],
           [type |-> None, url |-> VrtStreamUrl] }

\* entries of subtitleUrls; language is None when the entry declares none
SubtitleDescriptors ==
    { [url |-> SubtitleUrl1, type |-> "CLOSED", language |-> None],
      [url |-> SubtitleUrl2, type |-> "CLOSED", language |-> None],
      [url |-> SubtitleUrl2, type |-> "CLOSED", language |-> "fr"],
      [url |-> SubtitleUrl1, type |-> "OPEN", language |-> None],
      [url |-> "", type |-> "CLOSED", language |-> None] }

\* API JSON of the videos endpoint
VrtData ==
    { d \in [targetUrls : SeqsUpTo(TargetDescriptors, MaxVrtData),
             subtitleUrls : SeqsUpTo(SubtitleDescriptors, MaxVrtData)] :
        Len(d.targetUrls) + Len(d.subtitleUrls) <= MaxVrtData }

SubtitleLangs == {"nl", "fr"}
NoSubtitles == [l \in SubtitleLangs |-> <<>>]

\* mutant: the URL of a target is not tested
accepted_target_any_url(v) == v.type \notin {None, ""}

\* the filter of the targets: url_or_none(v['url']) and v['type']
accepted_target(v) ==
    url_or_none(v.url) # None /\ v.type \notin {None, ""}

\* mutant: HLS_AES is not known as an HLS type
target_capability_no_aes(format_type) ==
    CASE format_type = "HLS" -> "m3u8"
      [] format_type = "HDS" -> "f4m"
      [] format_type = "MPEG_DASH" -> "mpd"
      [] format_type = "HSS" -> "ism"
      [] OTHER -> "none"

\* the if / elif chain on format_type: the expansion called, "none" for the
\* else branch
target_capability(format_type) ==
    CASE format_type \in {"HLS", "HLS_AES"} -> "m3u8"
      [] format_type = "HDS" -> "f4m"
      [] format_type = "MPEG_DASH" -> "mpd"
      [] format_type = "HSS" -> "ism"
      [] OTHER -> "none"

\* m3u8_id / f4m_id / mpd_id = format_type, ism_id = 'mss'
expansion_id(format_type) ==
    IF target_capability(format_type) = "ism" THEN "mss" ELSE format_type

\* mutant: the raw variant is tagged with the type as the API spells it
raw_format_id_as_given(type) == type

\* 'format_id': format_type of the else branch, format_type being
\* target['type'].upper()
raw_format_id(type) == Upper(type)

\* what an expansion may do: fail, return variants, or return variants and
\* subtitle tracks (f4m returns no subtitles); "none" when none is called
Outcomes(v) ==
    IF ~accepted_target(v) \/ target_capability(Upper(v.type)) = "none" THEN {"none"}
    ELSE IF target_capability(Upper(v.type)) = "f4m" THEN {"fail", "ok"}
    ELSE {"fail", "ok", "subs"}

\* _extract_*_formats(_and_subtitles) with fatal=False: the variants
expansion_formats(id, url, outcome) ==
    IF outcome \in {"ok", "subs"}
    THEN <<[format_id |-> id, url |-> url, tbr |-> 1]>>
    ELSE <<>>

\* _extract_*_formats_and_subtitles with fatal=False: the subtitle tracks
expansion_subtitles(outcome) ==
    IF outcome = "subs"
    THEN [l \in SubtitleLangs |-> IF l = "nl" THEN <<[url |-> SubtitleUrl1]>> ELSE <<>>]
    ELSE NoSubtitles

\* InfoExtractor._merge_subtitle_items: the tracks of `more` whose URL `items`
\* has not got are appended
RECURSIVE merge_subtitle_items(_, _)
merge_subtitle_items(items, more) ==
    IF more = <<>> THEN items
    ELSE merge_subtitle_items(
            IF \E i \in 1..Len(items) : items[i].url = Head(more).url
            THEN items ELSE Append(items, Head(more)),
            Tail(more))

\* InfoExtractor._merge_subtitles(subs, target=subtitles)
merge_subtitles(subs, target) ==
    [l \in SubtitleLangs |-> merge_subtitle_items(target[l], subs[l])]

\* the loop over the targets from the i-th on; acc: formats, subtitles and
\* expansion calls so far; outs[i]: what the expansion of target i does
RECURSIVE targets_loop(_, _, _, _)
targets_loop(targetUrls, outs, i, acc) ==
    IF i > Len(targetUrls) THEN acc
    ELSE LET target == targetUrls[i]
             format_type == Upper(target.type)
             capability == target_capability(format_type)
         IN targets_loop(targetUrls, outs, i + 1,
                IF ~accepted_target(target) THEN acc
                ELSE IF capability = "none"
                THEN [acc EXCEPT !.formats =
                        Append(@, [format_id |-> raw_format_id(target.type),
                                   url |-> target.url, tbr |-> NoInt])]
                ELSE [formats |-> acc.formats
                                  \o expansion_formats(expansion_id(format_type),
                                                       target.url, outs[i]),
                      subtitles |-> IF capability = "f4m" THEN acc.subtitles
                                    ELSE merge_subtitles(expansion_subtitles(outs[i]),
                                                         acc.subtitles),
                      calls |-> Append(acc.calls, [capability |-> capability,
                                                   url |-> target.url,
                                                   target |-> i,
                                                   outcome |-> outs[i]])])

\* the filter of subtitleUrls: v['url'] and v['type'] == 'CLOSED'
accepted_subtitle(v) == v.url # "" /\ v.type = "CLOSED"

\* mutant: a declared language is the key
subtitle_key_declared(sub) == IF sub.language # None THEN sub.language ELSE "nl"

\* subtitles.setdefault('nl', [])
subtitle_key(sub) == "nl"

\* the loop over the accepted subtitleUrls
RECURSIVE subtitles_loop(_, _)
subtitles_loop(subs, subtitles) ==
    IF subs = <<>> THEN subtitles
    ELSE subtitles_loop(Tail(subs),
            IF accepted_subtitle(Head(subs))
            THEN [subtitles EXCEPT ![subtitle_key(Head(subs))] =
                    Append(@, [url |-> Head(subs).url])]
            ELSE subtitles)

\* InfoExtractor.extract(url) on the VrtNUIE instance
VrtExtract ==
    /\ ss_ie = "vrtnu"
    /\ vrt_pc = "idle" /\ vrt_items < MaxItems
    /\ vrt_items' = vrt_items + 1
    /\ vrt_err' = NoError
    /\ vrt_playerToken' = None
    /\ vrt_pc' = "sso"
    /\ vrt_data' = NoVrtData /\ vrt_calls' = <<>> /\ vrt_result' = NoVrtResult
    /\ UNCHANGED <<vrt_cookies, vrt_ssoReqs, vrt_tokenReqs, vrt_videoReqs>>
    /\ UNCHANGED <<ss_ie, ipVars, r1Vars, cnnVars, wkVars>>

\* VrtNUIE._real_extract: 'Getting tokens' (fatal); the response may set the
\* identity cookies
VrtGetTokens ==
    /\ vrt_pc = "sso"
    /\ vrt_ssoReqs' = vrt_ssoReqs + 1
    /\ \/ /\ vrt_err' = ExtractorError("Failed to get tokens")
          /\ vrt_pc' = "idle" /\ UNCHANGED vrt_cookies
       \/ \E set \in SUBSET VrtCookieNames :
            /\ vrt_cookies' = vrt_cookies \cup set
            /\ vrt_pc' = "graphql" /\ UNCHANGED vrt_err
    /\ UNCHANGED <<vrt_items, vrt_tokenReqs, vrt_videoReqs, vrt_playerToken,
                   vrt_data, vrt_calls, vrt_result>>
    /\ UNCHANGED <<ss_ie, ipVars, r1Vars, cnnVars, wkVars>>

\* VrtNUIE._real_extract: 'Downloading asset JSON' (fatal) with the bearer
\* cookie, and the stream id
VrtGraphql ==
    /\ vrt_pc = "graphql"
    /\ IF "vrtnu-site_profile_at" \notin vrt_cookies
       THEN /\ vrt_err' = PythonError("AttributeError", "value")
            /\ vrt_pc' = "idle"
       ELSE \E ok \in BOOLEAN :
            IF ok THEN vrt_pc' = "token" /\ UNCHANGED vrt_err
            ELSE /\ vrt_err' = ExtractorError("Unable to download asset JSON")
                 /\ vrt_pc' = "idle"
    /\ UNCHANGED <<vrt_items, vrt_cookies, vrt_ssoReqs, vrt_tokenReqs,
                   vrt_videoReqs, vrt_playerToken, vrt_data, vrt_calls, vrt_result>>
    /\ UNCHANGED <<ss_ie, ipVars, r1Vars, cnnVars, wkVars>>

\* player token responses: the vrtPlayerToken field, or a failed download
PlayerTokenResponses == [status : {"ok", "HTTPError"}, vrtPlayerToken : {None, "pt"}]

\* VRTBaseIE._call_api: 'Downloading player token' (fatal), with the identity
\* cookie as identityToken
VrtPlayerToken ==
    /\ vrt_pc = "token"
    /\ IF "vrtnu-site_profile_vt" \notin vrt_cookies
       THEN /\ vrt_err' = PythonError("AttributeError", "value")
            /\ vrt_pc' = "idle"
            /\ UNCHANGED <<vrt_tokenReqs, vrt_playerToken>>
       ELSE /\ vrt_tokenReqs' = vrt_tokenReqs + 1
            /\ \E json_response \in PlayerTokenResponses :
                IF json_response.status # "ok"
                THEN /\ vrt_err' = ExtractorError("Failed to download player token")
                     /\ vrt_pc' = "idle" /\ UNCHANGED vrt_playerToken
                ELSE IF json_response.vrtPlayerToken = None
                THEN /\ vrt_err' = PythonError("KeyError", "vrtPlayerToken")
                     /\ vrt_pc' = "idle" /\ UNCHANGED vrt_playerToken
                ELSE /\ vrt_playerToken' = json_response.vrtPlayerToken
                     /\ vrt_pc' = "video" /\ UNCHANGED vrt_err
    /\ UNCHANGED <<vrt_items, vrt_cookies, vrt_ssoReqs, vrt_videoReqs,
                   vrt_data, vrt_calls, vrt_result>>
    /\ UNCHANGED <<ss_ie, ipVars, r1Vars, cnnVars, wkVars>>

\* VRTBaseIE._call_api: 'Downloading API JSON' (fatal) with the player token
VrtVideo ==
    /\ vrt_pc = "video"
    /\ vrt_videoReqs' = vrt_videoReqs + 1
    /\ \/ /\ vrt_err' = ExtractorError("Failed to download API JSON")
          /\ vrt_pc' = "idle" /\ UNCHANGED vrt_data
       \/ \E data \in VrtData :
            /\ vrt_data' = data
            /\ vrt_pc' = "formats" /\ UNCHANGED vrt_err
    /\ UNCHANGED <<vrt_items, vrt_cookies, vrt_ssoReqs, vrt_tokenReqs,
                   vrt_playerToken, vrt_calls, vrt_result>>
    /\ UNCHANGED <<ss_ie, ipVars, r1Vars, cnnVars, wkVars>>

\* VRTBaseIE._extract_formats_and_subtitles(data, video_id)
extract_formats_and_subtitles(data, outs) ==
    LET t == targets_loop(data.targetUrls, outs, 1,
                          [formats |-> <<>>, subtitles |-> NoSubtitles, calls |-> <<>>])
    IN [formats |-> t.formats,
        subtitles |-> subtitles_loop(data.subtitleUrls, t.subtitles),
        calls |-> t.calls]

\* the caller of _call_api goes on: _extract_formats_and_subtitles on the
\* API JSON, with its expansion calls
VrtFormats ==
    /\ vrt_pc = "formats"
    /\ \E outs \in [1..Len(vrt_data.targetUrls) -> {"none", "fail", "ok", "subs"}] :
        /\ \A i \in 1..Len(vrt_data.targetUrls) :
                outs[i] \in Outcomes(vrt_data.targetUrls[i])
        /\ LET r == extract_formats_and_subtitles(vrt_data, outs) IN
            /\ vrt_result' = [formats |-> r.formats, subtitles |-> r.subtitles]
            /\ vrt_calls' = r.calls
    /\ vrt_pc' = "idle"
    /\ UNCHANGED <<vrt_items, vrt_cookies, vrt_ssoReqs, vrt_tokenReqs,
                   vrt_videoReqs, vrt_playerToken, vrt_err, vrt_data>>
    /\ UNCHANGED <<ss_ie, ipVars, r1Vars, cnnVars, wkVars>>

\* ------------------------------------------------------------- Radio 1
\* items of a page (the item itself and its paragraphs): the mediaReference
\* of each, None when it has none
MediaItems == {None, "m1", "m2", "m3"}

\* traverse_obj(next_js_data, ...): the items that have a mediaReference
RECURSIVE video_data(_)
video_data(items) ==
    IF items = <<>> THEN <<>>
    ELSE (IF Head(items) # None THEN <<Head(items)>> ELSE <<>>) \o video_data(Tail(items))

\* a Radio1BeIE instance before its extraction; the identity cookie is there
\* when the user's cookie jar holds it
RadioInit ==
    /\ WalkOff
    /\ ss_ie = "radio1"
    /\ ip_pc = "off" /\ ip_username = None /\ ip_password = None
    /\ ip_ready = FALSE /\ ip_access_token = "" /\ ip_items = 0
    /\ ip_err = NoError /\ ip_reqLoginPage = 0 /\ ip_reqLoginPost = 0
    /\ ip_reqToken = 0 /\ ip_reqWebpage = 0 /\ ip_reqApi = 0
    /\ ip_postUrl = <<>> /\ ip_code = <<>> /\ ip_tokenData = "unset"
    /\ ip_logins = 0 /\ ip_sentTokens = {} /\ ip_video_id = None
    /\ ip_metadata = NoMetadata
    /\ ip_expansions = <<>> /\ ip_result = NoResult /\ ip_malformed = 0
    /\ vrt_pc = "idle" /\ vrt_items = 0
    /\ vrt_cookies \in SUBSET {"vrtnu-site_profile_vt"}
    /\ vrt_ssoReqs = 0 /\ vrt_tokenReqs = 0 /\ vrt_videoReqs = 0
    /\ vrt_playerToken = None /\ vrt_err = NoError
    /\ vrt_data = NoVrtData /\ vrt_calls = <<>> /\ vrt_result = NoVrtResult
    /\ r1_pc = "start" /\ r1_refs = <<>> /\ r1_idx = 0 /\ r1_out = <<>>
    /\ CnnOff

\* Radio1BeIE._real_extract: the page (fatal), its item data, and the
\* playlist result holding the entries generator, not yet started
R1RealExtract ==
    /\ r1_pc = "start"
    /\ \/ /\ vrt_err' = ExtractorError("Unable to download webpage")
          /\ r1_pc' = "failed" /\ UNCHANGED r1_refs
       \/ \E items \in SeqsUpTo(MediaItems, MaxRefs) :
            /\ r1_refs' = video_data(items)
            /\ r1_pc' = "created" /\ UNCHANGED vrt_err
    /\ UNCHANGED <<r1_idx, r1_out, vrt_pc, vrt_items, vrt_cookies, vrt_ssoReqs,
                   vrt_tokenReqs, vrt_videoReqs, vrt_playerToken, vrt_data,
                   vrt_calls, vrt_result>>
    /\ UNCHANGED <<ss_ie, ipVars, cnnVars, wkVars>>

\* next() on the generator of _extract_video_entries: the loop takes the next
\* item and calls _call_api(media_reference), or the loop and the generator
\* end
R1Pull ==
    /\ r1_pc \in {"created", "suspended"} /\ vrt_pc = "idle"
    /\ IF r1_idx = Len(r1_refs)
       THEN /\ r1_pc' = "done"
            /\ UNCHANGED <<r1_idx, vrt_pc, vrt_playerToken, vrt_data, vrt_calls,
                           vrt_result>>
       ELSE /\ r1_idx' = r1_idx + 1
            /\ r1_pc' = "call"
            /\ vrt_pc' = "token"
            /\ vrt_playerToken' = None /\ vrt_data' = NoVrtData
            /\ vrt_calls' = <<>> /\ vrt_result' = NoVrtResult
    /\ UNCHANGED <<r1_refs, r1_out, vrt_items, vrt_cookies, vrt_ssoReqs,
                   vrt_tokenReqs, vrt_videoReqs, vrt_err>>
    /\ UNCHANGED <<ss_ie, ipVars, cnnVars, wkVars>>

\* _extract_video_entries after _call_api and _extract_formats_and_subtitles:
\* the entry is yielded, or the exception of the call leaves the generator,
\* which is finished by it
R1Yield ==
    /\ r1_pc = "call" /\ vrt_pc = "idle"
    /\ IF vrt_err # NoError
       THEN r1_pc' = "error" /\ UNCHANGED r1_out
       ELSE /\ r1_out' = Append(r1_out, r1_refs[r1_idx])
            /\ r1_pc' = "suspended"
    /\ UNCHANGED <<r1_refs, r1_idx, vrtVars>>
    /\ UNCHANGED <<ss_ie, ipVars, cnnVars, wkVars>>

RadioNext ==
    \/ R1RealExtract
    \/ R1Pull
    \/ VrtPlayerToken
    \/ VrtVideo
    \/ VrtFormats
    \/ R1Yield

SpecRadio == RadioInit /\ [][RadioNext]_vars

\* ------------------------------------------------------------ CNN Prima
\* tracks of the player options, flattened in the order of the loops: the key
\* of the list the track is in, its src and its lang (None when it has none)
PlayerTracks ==
    { [key |-> "HLS", src |-> "https://x/a.m3u8", lang |-> "cs"],
      [key |-> "HLS", src |-> "https://x/a.m3u8", lang |-> None],
      [key |-> "MP4", src |-> "https://x/a.m3u8", lang |-> ""],
      [key |-> "HLS", src |-> "https://x/c.mp4", lang |-> "cs"],
      [key |-> "DASH", src |-> "https://x/b.mpd", lang |-> "cs"],
      [key |-> "MP4", src |-> "https://x/c.mp4", lang |-> "cs"],
      [key |-> "HLS", src |-> None, lang |-> "cs"] }

\* src entries the regular expression of the fallback finds in the page
PageSrcs == {"https://x/a.m3u8", "https://x/c.mp4"}

\* player pages
PlayerPages ==
    { page \in [tracks : SeqsUpTo(PlayerTracks, MaxTracks),
                srcs : SeqsUpTo(PageSrcs, MaxTracks),
                geo : BOOLEAN] :
        Len(page.tracks) + Len(page.srcs) <= MaxTracks }

\* key.lower() on the keys of the tracks
Lower(key) ==
    CASE key = "HLS" -> "hls"
      [] key = "DASH" -> "dash"
      [] key = "MP4" -> "mp4"
      [] OTHER -> key

\* extract_formats: whether the call expands an HLS manifest
cnn_expands(format_url, format_key) ==
    format_key = "hls" \/ determine_ext(format_url) = "m3u8"

\* _extract_m3u8_formats with fatal=False: nothing, two variants without a
\* language, or two variants the first of which has its own language;
\* origin: the track the call is for, 0 for a src of the fallback
cnn_expand(format_url, outcome, origin) ==
    IF outcome \notin {"plain", "tagged"} THEN <<>>
    ELSE << [format_id |-> "hls", url |-> format_url, tbr |-> 2,
             language |-> IF outcome = "tagged" THEN "en" ELSE None,
             origin |-> origin],
            [format_id |-> "hls", url |-> format_url, tbr |-> 1,
             language |-> None, origin |-> origin] >>

\* mutant: the language of the track replaces the variant's own
variant_language_overwritten(language, lang) ==
    IF lang \notin {None, ""} THEN lang ELSE language

\* if lang: ... if not f.get('language'): f['language'] = lang
variant_language(language, lang) ==
    IF lang \notin {None, ""} /\ language \in {None, ""} THEN lang ELSE language

\* extract_formats(format_url, format_key, lang): the formats it adds
cnn_extract_formats(format_url, format_key, lang, outcome, origin) ==
    IF cnn_expands(format_url, format_key)
    THEN LET new_formats == cnn_expand(format_url, outcome, origin) IN
         [k \in 1..Len(new_formats) |->
            [new_formats[k] EXCEPT !.language = variant_language(@, lang)]]
    ELSE <<>>

\* the loops over options['tracks'] from the i-th track on: formats added
RECURSIVE cnn_tracks_loop(_, _, _)
cnn_tracks_loop(tracks, outs, i) ==
    IF i > Len(tracks) THEN <<>>
    ELSE (IF tracks[i].src \notin {None, ""}
          THEN cnn_extract_formats(tracks[i].src, Lower(tracks[i].key),
                                   tracks[i].lang, outs[i], i)
          ELSE <<>>)
         \o cnn_tracks_loop(tracks, outs, i + 1)

\* the fallback loop over the src entries of the page
RECURSIVE cnn_srcs_loop(_, _, _)
cnn_srcs_loop(srcs, outs, i) ==
    IF i > Len(srcs) THEN <<>>
    ELSE cnn_extract_formats(srcs[i], None, None, outs[i], 0)
         \o cnn_srcs_loop(srcs, outs, i + 1)

\* the formats of _real_extract before sorting
cnn_all_formats(page, outs, outs2) ==
    LET formats == cnn_tracks_loop(page.tracks, outs, 1) IN
    IF formats = <<>> THEN cnn_srcs_loop(page.srcs, outs2, 1) ELSE formats

\* the expansions made for the tracks and, when the fallback runs, the srcs
cnn_expansion_calls(page, outs, outs2) ==
    LET called == {i \in 1..Len(page.tracks) :
                     /\ page.tracks[i].src \notin {None, ""}
                     /\ cnn_expands(page.tracks[i].src, Lower(page.tracks[i].key))}
        first == SelectSeq([i \in 1..Len(page.tracks) |->
                              [track |-> i, url |-> page.tracks[i].src,
                               outcome |-> outs[i]]],
                           LAMBDA c : c.track \in called)
        second == SelectSeq([i \in 1..Len(page.srcs) |->
                              [track |-> 0, url |-> page.srcs[i],
                               outcome |-> outs2[i]]],
                           LAMBDA c : cnn_expands(c.url, None))
    IN IF cnn_tracks_loop(page.tracks, outs, 1) = <<>> THEN first \o second ELSE first

\* an IPrimaCNNIE instance before its extraction
CnnInit ==
    /\ WalkOff
    /\ ss_ie = "iprimacnn"
    /\ ip_pc = "off" /\ ip_username = None /\ ip_password = None
    /\ ip_ready = FALSE /\ ip_access_token = "" /\ ip_items = 0
    /\ ip_err = NoError /\ ip_reqLoginPage = 0 /\ ip_reqLoginPost = 0
    /\ ip_reqToken = 0 /\ ip_reqWebpage = 0 /\ ip_reqApi = 0
    /\ ip_postUrl = <<>> /\ ip_code = <<>> /\ ip_tokenData = "unset"
    /\ ip_logins = 0 /\ ip_sentTokens = {} /\ ip_video_id = None
    /\ ip_metadata = NoMetadata
    /\ ip_expansions = <<>> /\ ip_result = NoResult /\ ip_malformed = 0
    /\ vrt_pc = "off" /\ vrt_items = 0 /\ vrt_cookies = {} /\ vrt_ssoReqs = 0
    /\ vrt_tokenReqs = 0 /\ vrt_videoReqs = 0 /\ vrt_playerToken = None
    /\ vrt_err = NoError
    /\ vrt_data = NoVrtData /\ vrt_calls = <<>> /\ vrt_result = NoVrtResult
    /\ r1_pc = "off" /\ r1_refs = <<>> /\ r1_idx = 0 /\ r1_out = <<>>
    /\ cnn_pc = "webpage" /\ cnn_page = NoPage /\ cnn_calls = <<>>
    /\ cnn_formats = <<>> /\ cnn_err = NoError

\* IPrimaCNNIE._real_extract: the page (fatal), its title and the real id
CnnWebpage ==
    /\ cnn_pc = "webpage"
    /\ \E outcome \in {"HTTPError", "no title", "no id", "ok"} :
        IF outcome = "ok" THEN cnn_pc' = "player" /\ UNCHANGED cnn_err
        ELSE /\ cnn_pc' = "failed"
             /\ cnn_err' = ExtractorError(
                    CASE outcome = "HTTPError" -> "Unable to download webpage"
                      [] outcome = "no title" -> "Unable to extract title"
                      [] OTHER -> "Unable to extract real id")
    /\ UNCHANGED <<cnn_page, cnn_calls, cnn_formats>>
    /\ UNCHANGED <<ss_ie, ipVars, vrtVars, r1Vars, wkVars>>

\* IPrimaCNNIE._real_extract: 'Downloading player' (fatal)
CnnPlayer ==
    /\ cnn_pc = "player"
    /\ \/ /\ cnn_err' = ExtractorError("Unable to download webpage")
          /\ cnn_pc' = "failed" /\ UNCHANGED cnn_page
       \/ \E page \in PlayerPages :
            /\ cnn_page' = page
            /\ cnn_pc' = "formats" /\ UNCHANGED cnn_err
    /\ UNCHANGED <<cnn_calls, cnn_formats>>
    /\ UNCHANGED <<ss_ie, ipVars, vrtVars, r1Vars, wkVars>>

CnnOutcomes == {"none", "fail", "plain", "tagged"}

\* IPrimaCNNIE._real_extract: the tracks, the fallback, the geo notice,
\* _sort_formats and the returned info dict
CnnFormats ==
    /\ cnn_pc = "formats"
    /\ \E outs \in [1..Len(cnn_page.tracks) -> CnnOutcomes],
          outs2 \in [1..Len(cnn_page.srcs) -> CnnOutcomes] :
        LET formats == cnn_all_formats(cnn_page, outs, outs2)
            calls == cnn_expansion_calls(cnn_page, outs, outs2)
        IN /\ \A i \in 1..Len(outs) :
                outs[i] # "none" <=> \E c \in 1..Len(calls) : calls[c].track = i
           /\ \A i \in 1..Len(outs2) :
                outs2[i] # "none" <=>
                    \E c \in 1..Len(calls) :
                        calls[c].track = 0 /\ calls[c].url = cnn_page.srcs[i]
           /\ cnn_calls' = calls
           /\ IF formats = <<>> /\ cnn_page.geo
              THEN /\ cnn_err' = GeoRestrictedError({"CZ"})
                   /\ cnn_pc' = "failed" /\ UNCHANGED cnn_formats
              ELSE /\ cnn_formats' = sort_formats(formats)
                   /\ cnn_pc' = "done" /\ UNCHANGED cnn_err
    /\ UNCHANGED cnn_page
    /\ UNCHANGED <<ss_ie, ipVars, vrtVars, r1Vars, wkVars>>

CnnNext ==
    \/ CnnWebpage
    \/ CnnPlayer
    \/ CnnFormats

SpecCnn == CnnInit /\ [][CnnNext]_vars

SessionNext ==
    \/ IpExtract
    \/ IpLoginStart
    \/ IpLoginPage
    \/ IpLoginPost
    \/ IpToken
    \/ IpWebpage
    \/ IpApi
    \/ IpFormats
    \/ VrtExtract
    \/ VrtGetTokens
    \/ VrtGraphql
    \/ VrtPlayerToken
    \/ VrtVideo
    \/ VrtFormats

SpecSession == SessionInit /\ [][SessionNext]_vars

\* the extractors that return a formats list: IPrimaIE and VrtNUIE sessions
\* and IPrimaCNNIE extractions
FormatsInit == SessionInit \/ CnnInit

FormatsNext == SessionNext \/ CnnNext

SpecFormats == FormatsInit /\ [][FormatsNext]_vars

\* ---------------------------------------------------------------- claims
IsPrefix(a, b) == Len(a) <= Len(b) /\ \A i \in 1..Len(a) : a[i] = b[i]

OutIds == [i \in 1..Len(wk_out) |-> wk_out[i].id]

\* a category walk has received a response with is_last_page = true
SawLastPage ==
    wk_ie = "category" /\ \E i \in 1..Len(wk_signals) : wk_signals[i] = JsonTrue

\* k: the first page whose response set is_last_page = true
FirstLastPage ==
    CHOOSE i \in 1..Len(wk_signals) :
        wk_signals[i] = JsonTrue /\ \A j \in 1..(i - 1) : wk_signals[j] # JsonTrue

\* C1 as stated: when page k is the first page with is_last_page = true, the
\* listing endpoint has been fetched exactly k times in total by _real_extract
\* and the fully consumed _entries.
C1_TotalFetchesIsK ==
    (SawLastPage /\ wk_pc = "done")
        => wk_infoReqs + wk_pageReqs = FirstLastPage

\* C1 amended: once _entries has received the first response with
\* is_last_page = true, as its k-th response, it has fetched pages 1..k (the
\* earlier ones all with is_last_page = false), it never fetches again, and
\* with the one 'category info' request of _real_extract the listing endpoint
\* has been fetched k + 1 times in total.
C1_WalkerFetchesK ==
    SawLastPage =>
        /\ wk_pageReqs = FirstLastPage
        /\ wk_page = FirstLastPage
        /\ \A j \in 1..(FirstLastPage - 1) : wk_signals[j] = JsonFalse
        /\ wk_infoReqs = 1
        /\ wk_infoReqs + wk_pageReqs = FirstLastPage + 1

C1_Witness ==
    /\ SawLastPage /\ wk_pc = "done"
    /\ wk_signals = <<JsonFalse, JsonTrue>>
    /\ wk_pageReqs = 2 /\ wk_infoReqs = 1

\* C2 as stated: a fully consumed category walk that ended on is_last_page =
\* true has yielded exactly one reference per listed item.
C2_OnePerListedItem ==
    (SawLastPage /\ wk_pc = "done") => Len(wk_out) = wk_listed

\* C2 amended: a category walk yields, in page order then in-page order,
\* exactly one reference per listed item that names an id and is a YouTube
\* item or carries an embed URL; the other listed items are skipped.
C2_OnePerDeliverableItem ==
    wk_ie = "category" =>
        /\ IsPrefix(OutIds, wk_expect)
        /\ \A i \in 1..(Len(wk_outPage) - 1) : wk_outPage[i] <= wk_outPage[i + 1]
        /\ (SawLastPage /\ wk_pc = "done") => OutIds = wk_expect

C2_Witness ==
    /\ SawLastPage /\ wk_pc = "done"
    /\ wk_outPage = <<1, 1, 2>>
    /\ wk_listed = 3 /\ wk_pageReqs = 2
    /\ OutIds = wk_expect

\* C3: a category or topic extraction whose page-1 response carries no
\* end-of-data signal raises no error and yields no item.
C3_NoSignalIsEmptyPlaylist ==
    /\ (wk_ie = "category" /\ wk_infoSignal = None) => wk_err = None
    /\ (wk_ie = "category" /\ Len(wk_signals) >= 1 /\ wk_signals[1] = None)
            => (wk_err = None /\ wk_out = <<>> /\ wk_pc = "done")
    /\ (wk_ie = "topic" /\ Len(wk_signals) >= 1 /\ wk_signals[1] = NoInt)
            => (wk_err = None /\ wk_out = <<>> /\ wk_pc = "done")

\* items the caller has received that were listed on a page before page p
ReceivedBefore(p) == Cardinality({i \in 1..Len(wk_outPage) : wk_outPage[i] < p})

\* C4: the category and topic walkers fetch on demand: nothing is fetched
\* before the first next(); a page after the first is fetched only during a
\* next() that asks for an item beyond those of the pages before it; and
\* while the caller holds item N without asking for more, the last page
\* fetched is the page that lists item N.
C4_PullBased ==
    wk_ie \in {"category", "topic"} =>
        /\ wk_pulls = 0 => wk_pageReqs = 0
        /\ wk_pageReqs = (IF wk_pc = "fetch" THEN wk_page - 1 ELSE wk_page)
        /\ wk_pageReqs >= 1 => wk_pulls > ReceivedBefore(wk_pageReqs)
        /\ wk_pulls <= Len(wk_out) + 1
        /\ wk_pc = "suspended" =>
              /\ wk_pulls = Len(wk_out)
              /\ wk_outPage[Len(wk_outPage)] = wk_pageReqs

C4_Witness ==
    /\ wk_ie = "category" /\ wk_pc = "suspended"
    /\ Len(wk_out) = 1 /\ wk_videos = <<>> /\ wk_last = JsonFalse
    /\ wk_pageReqs = 1

\* C5: every item a playlist, category or topic walk hands to its caller is an
\* unresolved reference: a url_result with an id, a non-empty URL and the key
\* of the Youtube or SlidesLive extractor or no key; a YouTube item is
\* referred to by its bare id.
C5_ItemsAreReferences ==
    \A i \in 1..Len(wk_out) :
        /\ wk_out[i]._type = "url"
        /\ wk_out[i].id # None
        /\ wk_out[i].url # NoUrl
        /\ wk_out[i].ie_key \in {None, "Youtube", "SlidesLive"}
        /\ wk_out[i].ie_key = "Youtube" => wk_out[i].url = BareId(wk_out[i].id)
        /\ wk_out[i].ie_key = "SlidesLive" => wk_out[i].url.netloc = "slideslive.com"

C5_Witness ==
    /\ wk_ie = "topic" /\ Len(wk_out) = 3
    /\ wk_out[1].ie_key = "Youtube"
    /\ wk_out[2].ie_key = "SlidesLive"
    /\ wk_out[3].ie_key = None

\* the network requests of IPrimaIE._login
LoginRequests == ip_reqLoginPage + ip_reqLoginPost + ip_reqToken

LoginRequired == ExtractorError("Login is required to access any iPrima content")

\* C6: when the username or the password is absent, IPrimaIE._login fails
\* with the login-required error, and no login page request, login POST or
\* token POST (nor any later request) has been issued.
C6_LoginRequiredBeforeNetwork ==
    (ss_ie = "iprima" /\ (ip_username = None \/ ip_password = None)) =>
        /\ LoginRequests = 0 /\ ip_reqWebpage = 0 /\ ip_reqApi = 0
        /\ ip_pc \in {"idle", "login"}
        /\ (ip_pc = "idle" /\ ip_items > 0) => ip_err = LoginRequired

C6_Witness ==
    /\ ip_username = "user" /\ ip_password = None
    /\ ip_items = 2 /\ ip_pc = "idle"
    /\ ip_err = LoginRequired
    /\ LoginRequests = 0

\* the query string of a URL: what follows the first "?"
QueryOf(url) == SubSeq(url, Find(url, "?") + 1, Len(url))

\* the URL has no query string, or a query string of key=value pairs none of
\* which has the key `code`
NoCodeParameter(url) ==
    \/ Find(url, "?") = 0
    \/ \A i \in 1..Len(Split(QueryOf(url), "&")) :
        LET pair == Split(Split(QueryOf(url), "&")[i], "=") IN
        Len(pair) = 2 /\ pair[1] # <<>> /\ pair[1] # <<"code">>

\* C7: whenever the login POST ends on a URL with no `code` query parameter,
\* login fails with 'Login failed' and no token request or later request is
\* issued.
C7_NoCodeIsLoginFailed ==
    (ip_postUrl # <<>> /\ NoCodeParameter(ip_postUrl)) =>
        /\ ip_pc = "idle"
        /\ ip_err = ExtractorError("Login failed (invalid credentials?)")
        /\ ip_reqToken = 0 /\ ip_reqWebpage = 0 /\ ip_reqApi = 0

\* C8: when the token response has no access_token, login fails with
\* 'Getting token failed', the extractor is not initialized, and neither the
\* item page nor the media API is requested.
C8_TokenMissingIsFailure ==
    ip_tokenData = None =>
        /\ ip_pc = "idle"
        /\ ip_err = ExtractorError("Getting token failed")
        /\ ~ip_ready
        /\ ip_reqWebpage = 0 /\ ip_reqApi = 0

C8_Witness ==
    /\ ip_tokenData = None /\ ip_reqToken = 2 /\ ip_items = 2
    /\ ip_err = ExtractorError("Getting token failed")
    /\ ip_reqApi = 0

C10_ErrorCodeMapping ==
    LET code == ip_metadata.errorCode IN
    /\ code = "PLAY_GEOIP_DENIED" =>
            (ip_pc = "idle" /\ ip_err = GeoRestrictedError({"CZ"}))
    /\ code \notin {"unset", None, "PLAY_GEOIP_DENIED"} =>
            (ip_pc = "idle" /\ ip_err = ExtractorError("Access to stream infos forbidden"))
    /\ code = None =>
            /\ ip_err \in {NoError, ExtractorError("Reading stream infos failed")}
            /\ ip_metadata.hasStreamInfos => ip_err = NoError
            /\ ip_err = NoError =>
                (ip_pc = "formats" \/ (ip_pc = "idle" /\ ip_result.id = ip_video_id))

C10_Witness ==
    /\ ip_metadata.errorCode = "PLAY_GEOIP_DENIED"
    /\ ip_metadata.hasStreamInfos
    /\ ip_err = GeoRestrictedError({"CZ"})
    /\ ip_reqApi = 1

MalformedResponse == ExtractorError("Reading stream infos failed")

\* C11: an API body with a null errorCode and no streamInfos fails the item
\* with 'Reading stream infos failed': nothing is returned for it and no
\* manifest is expanded; the failure is the item's alone: the session stays
\* logged in with its token, and the next item can be extracted.
C11_MalformedFailsItemOnly ==
    /\ [](/\ (ip_metadata.errorCode = None /\ ~ip_metadata.hasStreamInfos) =>
                /\ ip_pc = "idle" /\ ip_err = MalformedResponse
                /\ ip_result = NoResult /\ ip_expansions = <<>>
          /\ ip_err = MalformedResponse =>
                /\ ip_ready /\ ip_access_token \notin {None, ""}
                /\ ip_malformed >= 1
                /\ ip_items < MaxItems => ENABLED IpExtract)
    /\ [][ip_err' = MalformedResponse =>
            UNCHANGED <<ip_ready, ip_access_token, ip_logins>>]_vars

\* the first item failed on a body without streamInfos, the second returned
C11_Witness ==
    /\ ip_malformed = 1 /\ ip_items = 2 /\ ip_pc = "idle"
    /\ ip_err = NoError /\ ip_result.id = "p12345"
    /\ ip_logins = 1

\* C12: when the Radio 1 entries generator has finished, every item of the
\* listing has been taken up: an item whose _call_api failed is followed by
\* the items after it.
C12_LaterItemsStillYielded ==
    r1_pc \in {"done", "error"} => r1_idx = Len(r1_refs)

\* the info dict of the current item has been returned
IpReturned == ip_pc = "idle" /\ ip_err = NoError /\ ip_result.id # None

\* C13: in IPrimaIE._real_extract the declared type of a stream descriptor
\* takes precedence over its URL extension: a descriptor of type HLS is
\* expanded as HLS and one of type DASH as DASH, whatever the extension.
C13_TypeTakesPrecedence ==
    IpReturned =>
        \A c \in 1..Len(ip_expansions) :
            LET manifest == ip_metadata.streamInfos[ip_expansions[c].stream] IN
            /\ manifest.type = "HLS" => ip_expansions[c].kind = "hls"
            /\ manifest.type = "DASH" => ip_expansions[c].kind = "dash"

\* _extract_formats_and_subtitles has returned to the caller of _call_api
VrtReturned == vrt_pc = "idle" /\ vrt_err = NoError /\ vrt_playerToken # None

VrtKnownTypes == {"HLS", "HLS_AES", "HDS", "MPEG_DASH", "HSS"}

\* a target the loop takes up whose type is none of the known ones
UnknownTarget(v) ==
    /\ v.url = VrtStreamUrl /\ v.type \notin {None, ""}
    /\ v.type \notin VrtKnownTypes /\ Upper(v.type) \notin VrtKnownTypes

\* the variants of a formats list that no expansion made
RawVariants(formats) == SelectSeq(formats, LAMBDA f : f.tbr = NoInt)

\* a stream descriptor of iPrima with neither a known type nor a known
\* extension
UnknownStream(m) ==
    /\ m.type \notin {"HLS", "DASH"}
    /\ m.url \notin {"https://x/a.m3u8", "https://x/b.mpd"}

RECURSIVE OwedRawVariants(_)
OwedRawVariants(targetUrls) ==
    IF targetUrls = <<>> THEN <<>>
    ELSE (IF UnknownTarget(Head(targetUrls))
          THEN <<[format_id |-> Upper(Head(targetUrls).type),
                  url |-> Head(targetUrls).url, tbr |-> NoInt]>>
          ELSE <<>>) \o OwedRawVariants(Tail(targetUrls))

ExpansionOfType ==
    [t \in VrtKnownTypes |->
        CASE t \in {"HLS", "HLS_AES"} -> "m3u8"
          [] t = "MPEG_DASH" -> "mpd"
          [] t = "HDS" -> "f4m"
          [] t = "HSS" -> "ism"]

\* C15: _extract_formats_and_subtitles expands every target that has a valid
\* URL and a known type exactly once, by the expansion of its type (HLS and
\* HLS_AES: m3u8, MPEG_DASH: mpd, HDS: f4m, HSS: ism), in the order of the
\* targets, and expands no other target.
C15_OneExpansionByType ==
    VrtReturned =>
        /\ \A i \in 1..Len(vrt_data.targetUrls) :
            LET v == vrt_data.targetUrls[i]
                calls == {c \in 1..Len(vrt_calls) : vrt_calls[c].target = i}
            IN IF v.url = VrtStreamUrl /\ v.type \in VrtKnownTypes
               THEN /\ Cardinality(calls) = 1
                    /\ \A c \in calls :
                        /\ vrt_calls[c].capability = ExpansionOfType[v.type]
                        /\ vrt_calls[c].url = v.url
               ELSE calls = {}
        /\ \A c \in 1..(Len(vrt_calls) - 1) :
            vrt_calls[c].target < vrt_calls[c + 1].target

C15_Witness ==
    /\ VrtReturned
    /\ vrt_data.targetUrls = <<[type |-> "HLS_AES", url |-> VrtStreamUrl],
                               [type |-> "HSS", url |-> VrtStreamUrl]>>
    /\ vrt_calls = <<[capability |-> "m3u8", url |-> VrtStreamUrl, target |-> 1,
                      outcome |-> "ok"],
                     [capability |-> "ism", url |-> VrtStreamUrl, target |-> 2,
                      outcome |-> "subs"]>>
    /\ Len(vrt_result.formats) = 2

\* the variants of a VRT formats list that expansions made
ExpandedVariants(formats) == SelectSeq(formats, LAMBDA f : f.tbr # NoInt)

\* the variants the successful ones of a list of VRT expansion calls return
RECURSIVE VariantsOfCalls(_)
VariantsOfCalls(calls) ==
    IF calls = <<>> THEN <<>>
    ELSE (IF Head(calls).outcome = "fail" THEN <<>>
          ELSE <<[format_id |-> IF Head(calls).capability = "ism" THEN "mss"
                                ELSE vrt_data.targetUrls[Head(calls).target].type,
                  url |-> Head(calls).url, tbr |-> 1]>>)
         \o VariantsOfCalls(Tail(calls))

\* C16: an expansion that returns nothing does not end the classification:
\* every descriptor that has an expansion is expanded, in order, whatever
\* the expansions before it did, and the formats hold exactly the variants of
\* the expansions that succeeded (next to the raw variants of VRT), for VRT
\* in the order of the targets.
C16_FailedExpansionIsSkipped ==
    /\ VrtReturned =>
        /\ Len(vrt_calls) =
             Cardinality({i \in 1..Len(vrt_data.targetUrls) :
                            /\ vrt_data.targetUrls[i].url = VrtStreamUrl
                            /\ vrt_data.targetUrls[i].type \in VrtKnownTypes})
        /\ ExpandedVariants(vrt_result.formats) = VariantsOfCalls(vrt_calls)
    /\ IpReturned =>
        /\ Len(ip_expansions) =
             Cardinality({i \in 1..Len(ip_metadata.streamInfos) :
                            ~UnknownStream(ip_metadata.streamInfos[i])})
        /\ Len(ip_result.formats) =
             2 * Cardinality({c \in 1..Len(ip_expansions) : ip_expansions[c].ok})
        /\ \A c \in 1..Len(ip_expansions) :
             Cardinality({k \in 1..Len(ip_result.formats) :
                            /\ ip_result.formats[k].url = ip_expansions[c].url
                            /\ ip_result.formats[k].format_id = ip_expansions[c].kind})
             = 2 * Cardinality({d \in 1..Len(ip_expansions) :
                            /\ ip_expansions[d].ok
                            /\ ip_expansions[d].url = ip_expansions[c].url
                            /\ ip_expansions[d].kind = ip_expansions[c].kind})

\* the first expansion fails, the second succeeds and its variants are kept
C16_Witness ==
    /\ IpReturned
    /\ Len(ip_expansions) = 2
    /\ ~ip_expansions[1].ok /\ ip_expansions[1].kind = "hls"
    /\ ip_expansions[2].ok /\ ip_expansions[2].kind = "dash"
    /\ Len(ip_result.formats) = 2
    /\ \A k \in 1..2 : ip_result.formats[k].format_id = "dash"

\* C17: in the subtitles _extract_formats_and_subtitles returns, no language
\* key holds two tracks with the same URL.
C17_SubtitlesUniqueByUrl ==
    VrtReturned =>
        \A l \in SubtitleLangs :
            \A i, j \in 1..Len(vrt_result.subtitles[l]) :
                i # j => vrt_result.subtitles[l][i].url # vrt_result.subtitles[l][j].url

\* the subtitleUrls entries that are taken up: closed captions with a URL
ListedTracks == SelectSeq(vrt_data.subtitleUrls,
                          LAMBDA v : v.url # "" /\ v.type = "CLOSED")

\* C18 as stated: a listed subtitle track is stored under the language it
\* declares, and under 'nl' when it declares none.
C18_ListedTrackUnderItsLanguage ==
    VrtReturned =>
        \A i \in 1..Len(ListedTracks) :
            LET key == IF ListedTracks[i].language = None THEN "nl"
                       ELSE ListedTracks[i].language
            IN \E k \in 1..Len(vrt_result.subtitles[key]) :
                    vrt_result.subtitles[key][k].url = ListedTracks[i].url

\* C18 amended: every listed subtitle track (closed captions with a URL) is
\* stored under the key 'nl', after the tracks the expansions found and in
\* the order of the listing, whether it declares a language or not.
C18_ListedTrackUnderNl ==
    VrtReturned =>
        LET nl == vrt_result.subtitles["nl"]
            n == Len(ListedTracks)
        IN /\ Len(nl) >= n
           /\ \A i \in 1..n : nl[Len(nl) - n + i].url = ListedTracks[i].url

C18_Witness ==
    /\ VrtReturned
    /\ vrt_data.subtitleUrls =
            <<[url |-> SubtitleUrl2, type |-> "CLOSED", language |-> "fr"],
              [url |-> SubtitleUrl1, type |-> "CLOSED", language |-> None]>>
    /\ vrt_result.subtitles["nl"] = <<[url |-> SubtitleUrl2], [url |-> SubtitleUrl1]>>
    /\ vrt_result.subtitles["fr"] = <<>>

\* C19: in the formats IPrimaCNNIE returns, every variant that comes from a
\* track with a language has a language: its own when the expansion set one,
\* the track's otherwise; a variant of a track without a language keeps what
\* the expansion gave it.
C19_TrackLanguageTagged ==
    cnn_pc = "done" =>
        \A k \in 1..Len(cnn_formats) :
            LET f == cnn_formats[k] IN
            f.origin > 0 =>
                LET track == cnn_page.tracks[f.origin]
                    call == cnn_calls[CHOOSE c \in 1..Len(cnn_calls) :
                                        cnn_calls[c].track = f.origin]
                    own == IF call.outcome = "tagged" /\ f.tbr = 2 THEN "en" ELSE None
                IN /\ track.lang \notin {None, ""} =>
                        f.language = (IF own # None THEN own ELSE track.lang)
                   /\ track.lang \in {None, ""} => f.language = own

C19_Witness ==
    /\ cnn_pc = "done"
    /\ cnn_page.tracks = <<[key |-> "HLS", src |-> "https://x/a.m3u8", lang |-> "cs"]>>
    /\ Len(cnn_calls) = 1 /\ cnn_calls[1].outcome = "tagged"
    /\ Len(cnn_formats) = 2
    /\ cnn_formats[1].language = "cs" /\ cnn_formats[2].language = "en"

\* a URL a variant may not have
NoUrlValue(url) == url \in {None, "", "not a url"}

\* C20: every variant of a returned formats list has a non-empty, valid URL;
\* a VRT target, iPrima stream descriptor or CNN Prima track whose URL is
\* missing, empty or invalid contributes no variant, raw or expanded, and an
\* expansion that fails contributes none.
C20_VariantsHaveUrls ==
    /\ VrtReturned =>
        /\ \A k \in 1..Len(vrt_result.formats) : ~NoUrlValue(vrt_result.formats[k].url)
        /\ \A c \in 1..Len(vrt_calls) :
                ~NoUrlValue(vrt_data.targetUrls[vrt_calls[c].target].url)
        /\ Len(vrt_result.formats) <=
                Cardinality({i \in 1..Len(vrt_data.targetUrls) :
                                ~NoUrlValue(vrt_data.targetUrls[i].url)})
                - Cardinality({c \in 1..Len(vrt_calls) : vrt_calls[c].outcome = "fail"})
    /\ IpReturned =>
        /\ \A k \in 1..Len(ip_result.formats) : ~NoUrlValue(ip_result.formats[k].url)
        /\ \A c \in 1..Len(ip_expansions) :
                NoUrlValue(ip_expansions[c].url) => ~ip_expansions[c].ok
        /\ Len(ip_result.formats) =
                2 * Cardinality({c \in 1..Len(ip_expansions) : ip_expansions[c].ok})
    /\ cnn_pc = "done" =>
        /\ \A k \in 1..Len(cnn_formats) : ~NoUrlValue(cnn_formats[k].url)
        /\ \A c \in 1..Len(cnn_calls) : ~NoUrlValue(cnn_calls[c].url)
        /\ Len(cnn_formats) =
                2 * Cardinality({c \in 1..Len(cnn_calls) : cnn_calls[c].outcome # "fail"})

\* a target with an empty URL gives nothing, the target after it one variant
C20_Witness ==
    /\ VrtReturned
    /\ vrt_data.targetUrls = <<[type |-> "HLS", url |-> ""],
                               [type |-> "mp4", url |-> VrtStreamUrl]>>
    /\ vrt_calls = <<>>
    /\ Len(vrt_result.formats) = 1

\* C21: the player token request comes before the API call that uses it, and
\* a session issues it once: the API calls of one session after the first use
\* the token already obtained.
C21_TokenIssuedOncePerSession ==
    /\ vrt_videoReqs > 0 => vrt_tokenReqs > 0
    /\ vrt_tokenReqs <= 1

\* C22: a listing download of the category or topic walker that fails in
\* transport surfaces to the caller: the walk ends with an error, never as a
\* finished walk.
C22_FailedFetchSurfaces ==
    (wk_ie \in {"category", "topic"} /\ wk_failed > 0)
        => (wk_pc = "error" /\ wk_err # None)

\* the media API body of the scenario
ScenarioBody ==
    [errorCode |-> None, hasStreamInfos |-> TRUE,
     streamInfos |-> <<[type |-> "HLS", url |-> "https://x/a.m3u8"]>>]

\* the item of the scenario has been extracted
ScenarioReturned ==
    IpReturned /\ ip_video_id = "p12345" /\ ip_metadata = ScenarioBody

\* C23: after a successful login, the page with productId p12345 and the API
\* body {streamInfos: [{type: HLS, url: https://x/a.m3u8}], errorCode: null}
\* give an info dict whose id is p12345, whose formats are exactly the
\* variants the one HLS expansion of that URL returned, with no DASH
\* expansion called, and which has no subtitles.
C23_EndToEndHls ==
    ScenarioReturned =>
        /\ ip_ready /\ ip_logins = 1
        /\ ip_result.id = "p12345"
        /\ Len(ip_expansions) = 1
        /\ ip_expansions[1].kind = "hls"
        /\ ip_expansions[1].url = "https://x/a.m3u8"
        /\ \A c \in 1..Len(ip_expansions) : ip_expansions[c].kind # "dash"
        /\ Len(ip_result.formats) = (IF ip_expansions[1].ok THEN 2 ELSE 0)
        /\ \A v \in 1..Len(expand("hls", "https://x/a.m3u8", ip_expansions[1].ok)) :
             Cardinality({k \in 1..Len(ip_result.formats) :
                ip_result.formats[k] = expand("hls", "https://x/a.m3u8", TRUE)[v]}) = 1
        /\ "subtitles" \notin ip_result.keys

\* the scenario with the expansion returning its two variants
C23_Witness ==
    /\ ScenarioReturned
    /\ ip_expansions[1].ok
    /\ Len(ip_result.formats) = 2
    /\ ip_result.formats[1].tbr = 1 /\ ip_result.formats[2].tbr = 2

\* every response the topic walk has received reported the total T
ConstantTotal(T) ==
    /\ wk_signals # <<>>
    /\ \A i \in 1..Len(wk_signals) : wk_signals[i] = T

\* the last response the topic walk received reported no total, or 0
NoTotal ==
    /\ wk_signals # <<>>
    /\ wk_signals[Len(wk_signals)] \in {NoInt, 0}

\* C24: the topic walk ends by comparing the reported total with the page
\* number. The i-th request is the request for page i; while every response
\* reports the same total T >= 1 the walk requests pages 1..T once each, is
\* finished only after page T and requests nothing after it; a response
\* that reports no total, or 0, ends the walk at once, and no item of that
\* response is yielded.
C24_TopicWalkEndsOnTotal ==
    wk_ie = "topic" =>
        /\ wk_pageReqs = Len(wk_signals)
        /\ wk_page = (IF wk_pc = "fetch" THEN wk_pageReqs + 1 ELSE wk_pageReqs)
        /\ \A T \in 1..MaxPages :
                ConstantTotal(T) =>
                    /\ wk_page <= T
                    /\ wk_pc = "done" => wk_pageReqs = T
                    /\ wk_pc \in {"fetch", "items", "suspended", "done"}
        /\ NoTotal =>
                /\ wk_pc = "done" /\ wk_err = None
                /\ \A i \in 1..Len(wk_outPage) : wk_outPage[i] < Len(wk_signals)
                /\ wk_videos = <<>>

\* pages 1 and 2 of a total of 2 were fetched, and the walk is finished
C24_Witness ==
    /\ wk_ie = "topic" /\ ConstantTotal(2)
    /\ wk_pc = "done" /\ wk_pageReqs = 2 /\ Len(wk_out) >= 1

\* a second response without a total ended the walk after page 1's items
C24_WitnessNoTotal ==
    /\ wk_ie = "topic" /\ NoTotal /\ Len(wk_signals) = 2
    /\ wk_pc = "done" /\ Len(wk_out) >= 1

\* C25: the topic walk never requests a page whose number is greater than
\* the total the response received last reported: request i (the request
\* for page i) follows a response i - 1 whose total is at least i.
C25_NeverBeyondLastTotal ==
    wk_ie = "topic" =>
        \A i \in 2..wk_pageReqs : i <= wk_signals[i - 1]

\* the access errors of _raise_access_error
AccessErrors ==
    {GeoRestrictedError({"CZ"}), ExtractorError("Access to stream infos forbidden")}

\* C26: the error code of the API body is checked first: a body whose
\* errorCode is not null fails the item with the access error, with or
\* without streamInfos, and a body without streamInfos fails it too; in both
\* cases no manifest expansion has been called. An expansion is only ever
\* called for a body with a null errorCode and with streamInfos.
C26_ErrorCodeCheckedFirst ==
    /\ [](/\ ip_metadata.errorCode \notin {"unset", None} =>
                /\ ip_pc = "idle" /\ ip_err \in AccessErrors
                /\ ip_expansions = <<>> /\ ip_result = NoResult
          /\ (ip_metadata.errorCode # "unset" /\ ~ip_metadata.hasStreamInfos) =>
                /\ ip_pc = "idle" /\ ip_err # NoError
                /\ ip_expansions = <<>> /\ ip_result = NoResult
          /\ ip_expansions # <<>> =>
                (ip_metadata.errorCode = None /\ ip_metadata.hasStreamInfos))
    /\ [][ip_expansions' # ip_expansions =>
            \/ ip_expansions' = <<>>
            \/ /\ ip_pc = "formats" /\ ip_err = NoError
               /\ ip_metadata.errorCode = None /\ ip_metadata.hasStreamInfos]_vars

\* a body with an error code and no streamInfos raised the access error
C26_Witness ==
    /\ ip_metadata.errorCode = "PLAY_FORBIDDEN" /\ ~ip_metadata.hasStreamInfos
    /\ ip_err = ExtractorError("Access to stream infos forbidden")
    /\ ip_expansions = <<>> /\ ip_reqApi = 1

====
